---- MODULE Spec2Model ----
(***************************************************************************)
(* The scene-graph update pipeline of the renderer: CoreNode (dirty flags, *)
(* transforms, clipping, render state, renderability) as a state machine,  *)
(* the first CoreNode of src/core/CoreNode.ts, and the pure helpers        *)
(* checkRenderProps and checkRenderBounds over bounded inputs.             *)
(***************************************************************************)
EXTENDS Integers, Sequences, FiniteSets, TLC

VARIABLES
    nodes,        \* CoreNode objects: node id -> fields (props and cached state)
    owners,       \* Texture.setRenderableOwner registrations: set of <<texture, node>>
    boundsMargin, \* stage.boundsMargin, <<top, right, bottom, left>>
    last,         \* the operation that produced this state
    ops,          \* number of operations performed so far
    legacy,       \* the nodes of src/core/CoreNode.ts: id -> constructed, parent, children
    probe,        \* input and result of the last call of a pure function
    textures,     \* the textures txManager.loadTexture created: id -> type, width, height
    rttNodes,     \* the render-to-texture nodes registered with the renderer
    renderOp,     \* a WebGlCoreRenderOp: its textures list and its maxTextures
    emitted,      \* events emitted and setRenderableOwner calls made by the last
                  \* frame, where the frame is recorded (RecordedPass)
    loader        \* texture loading: the textures' states, the microtask queue,
                  \* the listeners on the textures and the events nodes emitted

vars == <<nodes, owners, boundsMargin, last, ops, legacy, probe, textures, rttNodes, renderOp, emitted, loader>>

----------------------------------------------------------------------------
(* Bounds of the model *)

NumNodes == 3
MaxOps == 3
MaxSceneOps == 3
MaxRenderOps == 2
MaxCoord == 2

Nodes == 1 .. NumNodes
Root == 1
Null == 0

----------------------------------------------------------------------------
(* enum UpdateType: a bitmask, modelled as the set of its bits *)

Children == "Children"
ScaleRotate == "ScaleRotate"
Local == "Local"
Global == "Global"
Clipping == "Clipping"
CalculatedZIndex == "CalculatedZIndex"
ZIndexSortedChildren == "ZIndexSortedChildren"
PremultipliedColors == "PremultipliedColors"
WorldAlpha == "WorldAlpha"
RenderState == "RenderState"
IsRenderable == "IsRenderable"
RenderTexture == "RenderTexture"
ParentRenderTexture == "ParentRenderTexture"

None == {}

All ==
    { Children, ScaleRotate, Local, Global, Clipping, CalculatedZIndex,
      ZIndexSortedChildren, PremultipliedColors, WorldAlpha, RenderState,
      IsRenderable, RenderTexture, ParentRenderTexture }

(* enum CoreNodeRenderState *)
RsInit == 0
OutOfBounds == 2
InBounds == 4
InViewport == 8

----------------------------------------------------------------------------
(* Matrix3d:  | ta tb tx |                                                 *)
(*            | tc td ty |   with a flag for a field that is still unset   *)

Matrix(ta, tb, tc, td, tx, ty) ==
    [ta |-> ta, tb |-> tb, tc |-> tc, td |-> td, tx |-> tx, ty |-> ty, def |-> TRUE]

NoMatrix ==
    [ta |-> 0, tb |-> 0, tc |-> 0, td |-> 0, tx |-> 0, ty |-> 0, def |-> FALSE]

identity == Matrix(1, 0, 0, 1, 0, 0)

\* Matrix3d.translate(x, y, out)
translateOf(x, y) == Matrix(1, 0, 0, 1, x, y)

\* rotation is counted in quarter turns: cos and sin of 0 and of PI/2
Cos(q) == IF q = 0 THEN 1 ELSE 0
Sin(q) == IF q = 0 THEN 0 ELSE 1

\* Matrix3d.rotate(angle, out)
rotateOf(q) == Matrix(Cos(q), 0 - Sin(q), Sin(q), Cos(q), 0, 0)

\* a.multiply(b)
multiply(a, b) ==
    Matrix(a.ta * b.ta + a.tb * b.tc,
           a.ta * b.tb + a.tb * b.td,
           a.tc * b.ta + a.td * b.tc,
           a.tc * b.tb + a.td * b.td,
           a.ta * b.tx + a.tb * b.ty + a.tx,
           a.tc * b.tx + a.td * b.ty + a.ty)

\* m.translate(x, y)
translate(m, x, y) ==
    Matrix(m.ta, m.tb, m.tc, m.td,
           m.ta * x + m.tb * y + m.tx,
           m.tc * x + m.td * y + m.ty)

\* m.scale(sx, sy)
scale(m, sx, sy) ==
    Matrix(m.ta * sx, m.tb * sy, m.tc * sx, m.td * sy, m.tx, m.ty)

----------------------------------------------------------------------------
(* lib/utils: Bound, RectWithValid *)

Min(a, b) == IF a < b THEN a ELSE b
Max(a, b) == IF a > b THEN a ELSE b

createBound(x1, y1, x2, y2) ==
    [x1 |-> x1, y1 |-> y1, x2 |-> x2, y2 |-> y2, def |-> TRUE]

NoBound == [x1 |-> 0, y1 |-> 0, x2 |-> 0, y2 |-> 0, def |-> FALSE]

\* bound1 lies entirely inside bound2
boundInsideBound(b1, b2) ==
    /\ b1.x1 >= b2.x1
    /\ b1.y1 >= b2.y1
    /\ b1.x2 <= b2.x2
    /\ b1.y2 <= b2.y2

Rect(x, y, width, height, valid) ==
    [x |-> x, y |-> y, width |-> width, height |-> height, valid |-> valid]

\* intersectRect(a, b, out): the fields x, y, width, height written to out
intersectRect(a, b) ==
    LET x == Max(a.x, b.x)
        y == Max(a.y, b.y)
        width == Min(a.x + a.width, b.x + b.width) - x
        height == Min(a.y + a.height, b.y + b.height) - y
    IN  IF width > 0 /\ height > 0
        THEN [x |-> x, y |-> y, width |-> width, height |-> height]
        ELSE [x |-> 0, y |-> 0, width |-> 0, height |-> 0]

RenderCoords(x1, y1, x2, y2, x3, y3, x4, y4) ==
    [x1 |-> x1, y1 |-> y1, x2 |-> x2, y2 |-> y2,
     x3 |-> x3, y3 |-> y3, x4 |-> x4, y4 |-> y4, def |-> TRUE]

NoCoords ==
    [x1 |-> 0, y1 |-> 0, x2 |-> 0, y2 |-> 0,
     x3 |-> 0, y3 |-> 0, x4 |-> 0, y4 |-> 0, def |-> FALSE]

\* mergeColorAlphaPremultiplied(rgba, alpha): colours are an intensity, alpha is 0 or 1
mergeColorAlphaPremultiplied(rgba, alpha) == rgba * alpha

----------------------------------------------------------------------------
(* CoreNode: the object after `new CoreNode(stage, props)` with parent: null, *)
(* texture: null, src: '', rtt: false and the given geometry and paint props *)

\* the texture an application attaches to a node, and the textures that exist
\* before any render texture is created
ImageTexture == 1
ImageTextures == <<[type |-> "ImageTexture", width |-> 0, height |-> 0]>>

DefShader == "defShaderCtr"
CustomShader == "custom"

NoRect == Rect(0, 0, 0, 0, FALSE)

CoreNode(x, y, width, height, clipping, color) ==
    [ x |-> x, y |-> y, width |-> width, height |-> height,
      mountX |-> 0, mountY |-> 0, pivotX |-> 0, pivotY |-> 0,
      scaleX |-> 1, scaleY |-> 1, rotation |-> 0,
      alpha |-> 1, clipping |-> clipping,
      color |-> color, colorTop |-> color, colorBottom |-> color,
      colorLeft |-> color, colorRight |-> color,
      colorTl |-> color, colorTr |-> color, colorBl |-> color, colorBr |-> color,
      parent |-> Null, zIndex |-> 0, zIndexLocked |-> 0,
      texture |-> Null, preload |-> FALSE, shader |-> DefShader, rtt |-> FALSE,
      src |-> "",
      children |-> << >>,
      updateType |-> All,
      globalTransform |-> NoMatrix,
      scaleRotateTransform |-> scale(rotateOf(0), 1, 1),
      localTransform |-> NoMatrix,
      renderCoords |-> NoCoords,
      renderBound |-> NoBound,
      strictBound |-> NoBound,
      preloadBound |-> NoBound,
      clippingRect |-> NoRect,
      isRenderable |-> FALSE,
      renderState |-> RsInit,
      worldAlpha |-> 1,
      premultipliedColorTl |-> 0, premultipliedColorTr |-> 0,
      premultipliedColorBl |-> 0, premultipliedColorBr |-> 0,
      calcZIndex |-> 0,
      hasRTTupdates |-> FALSE,
      parentHasRenderTexture |-> FALSE,
      destroyed |-> FALSE ]

(* The objects an operation may touch, threaded through the calls it makes *)
World ==
    [nodes |-> nodes, owners |-> owners, margin |-> boundsMargin,
     textures |-> textures, rttNodes |-> rttNodes, log |-> {}]

Commit(w) ==
    /\ nodes' = w.nodes
    /\ owners' = w.owners
    /\ textures' = w.textures
    /\ rttNodes' = w.rttNodes
    /\ emitted' = w.log

\* texture.setRenderableOwner(owner, renderable)
setRenderableOwner(w, t, id, renderable) ==
    IF renderable
    THEN [w EXCEPT !.owners = @ \cup {<<t, id>>},
                   !.log = @ \cup {<<"setRenderableOwner", id, t>>}]
    ELSE [w EXCEPT !.owners = @ \ {<<t, id>>},
                   !.log = @ \cup {<<"setRenderableOwner", id, t>>}]

----------------------------------------------------------------------------
(* setUpdateType / setRTTUpdates *)

RECURSIVE setRTTUpdates(_, _)
setRTTUpdates(w, id) ==
    LET w1 == [w EXCEPT !.nodes[id].hasRTTupdates = TRUE]
        p == w.nodes[id].parent
    IN  IF p # Null THEN setRTTUpdates(w1, p) ELSE w1

\* a setUpdateType that flags the node and tells no ancestor
setUpdateTypeNoParent(w, id, type) ==
    [w EXCEPT !.nodes[id].updateType = @ \cup type]

RECURSIVE setUpdateType(_, _, _)
setUpdateType(w, id, type) ==
    LET w1 == [w EXCEPT !.nodes[id].updateType = @ \cup type]
        p == w1.nodes[id].parent
        w2 == IF p # Null /\ Children \notin w1.nodes[p].updateType
              THEN setUpdateType(w1, p, {Children})
              ELSE w1
    IN  IF w2.nodes[id].parentHasRenderTexture THEN setRTTUpdates(w2, id) ELSE w2

\* children.forEach((child) => child.setUpdateType(type))
RECURSIVE forEachChildSetUpdateType(_, _, _, _)
forEachChildSetUpdateType(w, id, i, type) ==
    IF i > Len(w.nodes[id].children)
    THEN w
    ELSE forEachChildSetUpdateType(
             setUpdateType(w, w.nodes[id].children[i], type), id, i + 1, type)

----------------------------------------------------------------------------
(* The cached geometry *)

updateScaleRotateTransform(w, id) ==
    LET n == w.nodes[id]
    IN  [w EXCEPT !.nodes[id].scaleRotateTransform =
            scale(rotateOf(n.rotation), n.scaleX, n.scaleY)]

\* updateLocalTransform of a node whose texture options ask for no 'contain' resize
updateLocalTransform(w, id) ==
    LET n == w.nodes[id]
        pivotTranslateX == n.pivotX * n.width
        pivotTranslateY == n.pivotY * n.height
        mountTranslateX == n.mountX * n.width
        mountTranslateY == n.mountY * n.height
        lt == translate(
                  multiply(translateOf(pivotTranslateX - mountTranslateX + n.x,
                                       pivotTranslateY - mountTranslateY + n.y),
                           n.scaleRotateTransform),
                  0 - pivotTranslateX, 0 - pivotTranslateY)
    IN  setUpdateType([w EXCEPT !.nodes[id].localTransform = lt], id, {Global})

calculateRenderCoords(w, id) ==
    LET n == w.nodes[id]
        t == n.globalTransform
        width == n.width
        height == n.height
    IN  [w EXCEPT !.nodes[id].renderCoords =
            IF t.tb = 0 /\ t.tc = 0
            THEN RenderCoords(t.tx, t.ty,
                              t.tx + width * t.ta, t.ty,
                              t.tx + width * t.ta, t.ty + height * t.td,
                              t.tx, t.ty + height * t.td)
            ELSE RenderCoords(t.tx, t.ty,
                              t.tx + width * t.ta, t.ty + width * t.tc,
                              t.tx + width * t.ta + height * t.tb,
                              t.ty + width * t.tc + height * t.td,
                              t.tx + height * t.tb, t.ty + height * t.td)]

Min4(a, b, c, d) == Min(Min(a, b), Min(c, d))
Max4(a, b, c, d) == Max(Max(a, b), Max(c, d))

updateBoundingRect(w, id) ==
    LET n == w.nodes[id]
        t == n.globalTransform
        rc == n.renderCoords
    IN  [w EXCEPT !.nodes[id].renderBound =
            IF t.tb = 0 \/ t.tc = 0
            THEN createBound(rc.x1, rc.y1, rc.x3, rc.y3)
            ELSE createBound(Min4(rc.x1, rc.x2, rc.x3, rc.x4),
                             Min4(rc.y1, rc.y2, rc.y3, rc.y4),
                             Max4(rc.x1, rc.x2, rc.x3, rc.x4),
                             Max4(rc.y1, rc.y2, rc.y3, rc.y4))]

----------------------------------------------------------------------------
(* Render state and renderability *)

\* checkRenderProps on the props of one node
checkRenderProps(n) ==
    IF n.texture # Null THEN TRUE
    ELSE IF n.width = 0 \/ n.height = 0 THEN FALSE
    ELSE IF n.shader = DefShader THEN TRUE
    ELSE IF n.clipping THEN TRUE
    ELSE IF n.color # 0 THEN TRUE
    ELSE IF n.colorTop # 0 THEN TRUE
    ELSE IF n.colorBottom # 0 THEN TRUE
    ELSE IF n.colorLeft # 0 THEN TRUE
    ELSE IF n.colorRight # 0 THEN TRUE
    ELSE IF n.colorTl # 0 THEN TRUE
    ELSE IF n.colorTr # 0 THEN TRUE
    ELSE IF n.colorBl # 0 THEN TRUE
    ELSE IF n.colorBr # 0 THEN TRUE
    ELSE FALSE

\* parentClippingRect.width || this.stage.root.width
OrElse(a, b) == IF a # 0 THEN a ELSE b

\* a checkRenderBounds that measures every node against the stage root alone
checkRenderBoundsRootOnly(renderBound, parentClippingRect, rootWidth, rootHeight, renderM, oldPreload) ==
    LET strictBound == createBound(0, 0, rootWidth, rootHeight)
        preloadBound == createBound(strictBound.x1 - renderM[4],
                                    strictBound.y1 - renderM[1],
                                    strictBound.x2 + renderM[2],
                                    strictBound.y2 + renderM[3])
    IN  IF boundInsideBound(renderBound, strictBound)
        THEN [state |-> InViewport, strictBound |-> strictBound, preloadBound |-> oldPreload]
        ELSE IF boundInsideBound(renderBound, preloadBound)
        THEN [state |-> InBounds, strictBound |-> strictBound, preloadBound |-> preloadBound]
        ELSE [state |-> OutOfBounds, strictBound |-> strictBound, preloadBound |-> preloadBound]

\* a checkRenderBounds that expands the strict bound by [left, bottom, right, top]
checkRenderBoundsMarginsSwapped(renderBound, parentClippingRect, rootWidth, rootHeight, renderM, oldPreload) ==
    LET rectW == OrElse(parentClippingRect.width, rootWidth)
        rectH == OrElse(parentClippingRect.height, rootHeight)
        strictBound == createBound(parentClippingRect.x,
                                   parentClippingRect.y,
                                   parentClippingRect.x + rectW,
                                   parentClippingRect.y + rectH)
        preloadBound == createBound(strictBound.x1 - renderM[2],
                                    strictBound.y1 - renderM[3],
                                    strictBound.x2 + renderM[4],
                                    strictBound.y2 + renderM[1])
    IN  IF boundInsideBound(renderBound, strictBound)
        THEN [state |-> InViewport, strictBound |-> strictBound, preloadBound |-> oldPreload]
        ELSE IF boundInsideBound(renderBound, preloadBound)
        THEN [state |-> InBounds, strictBound |-> strictBound, preloadBound |-> preloadBound]
        ELSE [state |-> OutOfBounds, strictBound |-> strictBound, preloadBound |-> preloadBound]

\* checkRenderBounds: the strict bound, the preload bound (kept when it is not
\* computed) and the state returned
checkRenderBounds(renderBound, parentClippingRect, rootWidth, rootHeight, renderM, oldPreload) ==
    LET rectW == OrElse(parentClippingRect.width, rootWidth)
        rectH == OrElse(parentClippingRect.height, rootHeight)
        strictBound == createBound(parentClippingRect.x,
                                   parentClippingRect.y,
                                   parentClippingRect.x + rectW,
                                   parentClippingRect.y + rectH)
        preloadBound == createBound(strictBound.x1 - renderM[4],
                                    strictBound.y1 - renderM[1],
                                    strictBound.x2 + renderM[2],
                                    strictBound.y2 + renderM[3])
    IN  IF boundInsideBound(renderBound, strictBound)
        THEN [state |-> InViewport, strictBound |-> strictBound, preloadBound |-> oldPreload]
        ELSE IF boundInsideBound(renderBound, preloadBound)
        THEN [state |-> InBounds, strictBound |-> strictBound, preloadBound |-> preloadBound]
        ELSE [state |-> OutOfBounds, strictBound |-> strictBound, preloadBound |-> preloadBound]

\* CoreNodeRenderStateMap.get(renderState)
CoreNodeRenderStateMap(renderState) ==
    CASE renderState = RsInit -> "init"
      [] renderState = OutOfBounds -> "outOfBounds"
      [] renderState = InBounds -> "inBounds"
      [] renderState = InViewport -> "inViewport"

\* an updateRenderState that emits on every call, changed or not
updateRenderStateAlwaysEmits(w, id, parentClippingRect) ==
    LET n == w.nodes[id]
        r == checkRenderBounds(n.renderBound, parentClippingRect,
                               w.nodes[Root].width, w.nodes[Root].height,
                               w.margin, n.preloadBound)
    IN  [w EXCEPT !.nodes[id].strictBound = r.strictBound,
                  !.nodes[id].preloadBound = r.preloadBound,
                  !.nodes[id].renderState = r.state,
                  !.log = @ \cup {<<"emit", id, CoreNodeRenderStateMap(r.state),
                                    n.renderState, r.state>>}]

\* the event is logged with its name and its payload (previous, current)
updateRenderState(w, id, parentClippingRect) ==
    LET n == w.nodes[id]
        r == checkRenderBounds(n.renderBound, parentClippingRect,
                               w.nodes[Root].width, w.nodes[Root].height,
                               w.margin, n.preloadBound)
    IN  [w EXCEPT !.nodes[id].strictBound = r.strictBound,
                  !.nodes[id].preloadBound = r.preloadBound,
                  !.nodes[id].renderState = r.state,
                  !.log = IF r.state = n.renderState
                          THEN @
                          ELSE @ \cup {<<"emit", id, CoreNodeRenderStateMap(r.state),
                                          n.renderState, r.state>>}]

\* onChangeIsRenderable: this.texture?.setRenderableOwner(this, isRenderable)
onChangeIsRenderable(w, id, isRenderable) ==
    IF w.nodes[id].texture # Null
    THEN setRenderableOwner(w, w.nodes[id].texture, id, isRenderable)
    ELSE w

\* an updateIsRenderable that asks for world alpha and render state alone
updateIsRenderableBoundsOnly(w, id) ==
    LET n == w.nodes[id]
        newIsRenderable ==
            IF n.worldAlpha = 0
            THEN FALSE
            ELSE n.renderState > OutOfBounds
    IN  IF n.isRenderable # newIsRenderable
        THEN onChangeIsRenderable([w EXCEPT !.nodes[id].isRenderable = newIsRenderable],
                                  id, newIsRenderable)
        ELSE w

updateIsRenderable(w, id) ==
    LET n == w.nodes[id]
        newIsRenderable ==
            IF n.worldAlpha = 0 \/ ~checkRenderProps(n)
            THEN FALSE
            ELSE n.renderState > OutOfBounds
    IN  IF n.isRenderable # newIsRenderable
        THEN onChangeIsRenderable([w EXCEPT !.nodes[id].isRenderable = newIsRenderable],
                                  id, newIsRenderable)
        ELSE w

----------------------------------------------------------------------------
(* Clipping and z-index *)

\* a calculateClippingRect that never looks at the parent's rect
calculateClippingRectOwnOnly(w, id, parentClippingRect, aliased) ==
    LET n == w.nodes[id]
        gt == n.globalTransform
        isRotated == gt.tb # 0 \/ gt.tc # 0
    IN  [w EXCEPT !.nodes[id].clippingRect =
            IF n.clipping /\ ~isRotated
            THEN Rect(gt.tx, gt.ty, n.width * gt.ta, n.height * gt.td, TRUE)
            ELSE [n.clippingRect EXCEPT !.valid = FALSE]]

\* a calculateClippingRect that never withdraws the validity of the rect
calculateClippingRectKeepValid(w, id, parentClippingRect, aliased) ==
    LET n == w.nodes[id]
        gt == n.globalTransform
        isRotated == gt.tb # 0 \/ gt.tc # 0
        own == IF n.clipping /\ ~isRotated
               THEN Rect(gt.tx, gt.ty, n.width * gt.ta, n.height * gt.td, TRUE)
               ELSE n.clippingRect
        pcr == IF aliased THEN own ELSE parentClippingRect
        both == intersectRect(pcr, own)
        res == IF pcr.valid /\ own.valid
               THEN Rect(both.x, both.y, both.width, both.height, TRUE)
               ELSE IF pcr.valid
               THEN Rect(pcr.x, pcr.y, pcr.width, pcr.height, TRUE)
               ELSE own
    IN  [w EXCEPT !.nodes[id].clippingRect = res]

\* calculateClippingRect; aliased: parentClippingRect is this.clippingRect itself
\* (the root is updated with its own clipping rect)
calculateClippingRect(w, id, parentClippingRect, aliased) ==
    LET n == w.nodes[id]
        gt == n.globalTransform
        isRotated == gt.tb # 0 \/ gt.tc # 0
        own == IF n.clipping /\ ~isRotated
               THEN Rect(gt.tx, gt.ty, n.width * gt.ta, n.height * gt.td, TRUE)
               ELSE [n.clippingRect EXCEPT !.valid = FALSE]
        pcr == IF aliased THEN own ELSE parentClippingRect
        both == intersectRect(pcr, own)
        res == IF pcr.valid /\ own.valid
               THEN Rect(both.x, both.y, both.width, both.height, TRUE)
               ELSE IF pcr.valid
               THEN Rect(pcr.x, pcr.y, pcr.width, pcr.height, TRUE)
               ELSE own
    IN  [w EXCEPT !.nodes[id].clippingRect = res]

\* the node's own zIndex, whatever the parent's lock says
calculateZIndexOwnOnly(w, id) ==
    [w EXCEPT !.nodes[id].calcZIndex = w.nodes[id].zIndex]

calculateZIndex(w, id) ==
    LET n == w.nodes[id]
        z == n.zIndex
        p == w.nodes[n.parent].zIndex
    IN  [w EXCEPT !.nodes[id].calcZIndex =
            IF w.nodes[n.parent].zIndexLocked # 0
            THEN (IF z < p THEN z ELSE p)
            ELSE z]

\* Array.prototype.sort with (a, b) => a.calcZIndex - b.calcZIndex: a stable sort
RECURSIVE insertSorted(_, _, _)
insertSorted(ns, sorted, c) ==
    IF sorted = << >> THEN <<c>>
    ELSE IF ns[sorted[Len(sorted)]].calcZIndex <= ns[c].calcZIndex
    THEN Append(sorted, c)
    ELSE Append(insertSorted(ns, SubSeq(sorted, 1, Len(sorted) - 1), c),
                sorted[Len(sorted)])

RECURSIVE sortedBy(_, _)
sortedBy(ns, cs) ==
    IF cs = << >> THEN << >>
    ELSE insertSorted(ns, sortedBy(ns, SubSeq(cs, 1, Len(cs) - 1)), cs[Len(cs)])

\* the comparator turned around: b.calcZIndex - a.calcZIndex
sortChildrenDescending(w, id) ==
    [w EXCEPT !.nodes[id].children =
         [i \in 1 .. Len(@) |-> sortedBy(w.nodes, @)[Len(@) + 1 - i]]]

sortChildren(w, id) ==
    [w EXCEPT !.nodes[id].children = sortedBy(w.nodes, @)]

----------------------------------------------------------------------------
(* update(delta, parentClippingRect), one operator per step of the method *)

hasFlag(w, id, flag) == flag \in w.nodes[id].updateType

updateStepScaleRotate(w, id) ==
    IF hasFlag(w, id, ScaleRotate)
    THEN setUpdateType(updateScaleRotateTransform(w, id), id, {Local})
    ELSE w

updateStepLocal(w, id) ==
    IF hasFlag(w, id, Local)
    THEN setUpdateType(updateLocalTransform(w, id), id, {Global})
    ELSE w

\* the ancestors of a node, nearest first
RECURSIVE ancestors(_, _)
ancestors(ns, id) ==
    IF ns[id].parent = Null THEN << >>
    ELSE <<ns[id].parent>> \o ancestors(ns, ns[id].parent)

hasRttAncestor(ns, id) ==
    \E i \in 1 .. Len(ancestors(ns, id)) : ns[ancestors(ns, id)[i]].rtt

updateStepParentRenderTexture(w, id) ==
    IF hasFlag(w, id, ParentRenderTexture) /\ hasRttAncestor(w.nodes, id)
    THEN [w EXCEPT !.nodes[id].parentHasRenderTexture = TRUE]
    ELSE w

updateStepRenderTexture(w, id) ==
    IF w.nodes[id].updateType # All /\ hasFlag(w, id, RenderTexture)
    THEN forEachChildSetUpdateType(w, id, 1, All)
    ELSE w

\* a global transform that forgets the parent
globalTransformLocalOnly(w, id) == w.nodes[id].localTransform

\* the global transform a node takes when its Global flag is pending
globalTransformOf(w, id) ==
    LET n == w.nodes[id]
        parent == n.parent
        copied == IF parent # Null /\ w.nodes[parent].globalTransform.def
                  THEN w.nodes[parent].globalTransform
                  ELSE n.localTransform
        start == IF n.parentHasRenderTexture /\ parent # Null /\ w.nodes[parent].rtt
                 THEN identity
                 ELSE copied
    IN  IF parent # Null THEN multiply(start, n.localTransform) ELSE start

updateStepGlobal(w, id) ==
    IF hasFlag(w, id, Global)
    THEN LET w1 == [w EXCEPT !.nodes[id].globalTransform = globalTransformOf(w, id)]
             w2 == updateBoundingRect(calculateRenderCoords(w1, id), id)
         IN  setUpdateType(w2, id, {Clipping, RenderState, Children})
    ELSE w

updateStepClipping(w, id, parentClippingRect, aliased) ==
    IF hasFlag(w, id, Clipping)
    THEN setUpdateType(calculateClippingRect(w, id, parentClippingRect, aliased),
                       id, {Children})
    ELSE w

updateStepWorldAlpha(w, id) ==
    IF hasFlag(w, id, WorldAlpha)
    THEN LET n == w.nodes[id]
             wa == IF n.parent # Null
                   THEN w.nodes[n.parent].worldAlpha * n.alpha
                   ELSE n.alpha
         IN  setUpdateType([w EXCEPT !.nodes[id].worldAlpha = wa], id,
                           {Children, PremultipliedColors, IsRenderable})
    ELSE w

updateStepPremultipliedColors(w, id) ==
    IF hasFlag(w, id, PremultipliedColors)
    THEN LET n == w.nodes[id]
             tl == mergeColorAlphaPremultiplied(n.colorTl, n.worldAlpha)
             same == /\ n.colorTl = n.colorTr
                     /\ n.colorBl = n.colorBr
                     /\ n.colorTl = n.colorBl
         IN  [w EXCEPT
                !.nodes[id].premultipliedColorTl = tl,
                !.nodes[id].premultipliedColorTr =
                    IF same THEN tl ELSE mergeColorAlphaPremultiplied(n.colorTr, n.worldAlpha),
                !.nodes[id].premultipliedColorBl =
                    IF same THEN tl ELSE mergeColorAlphaPremultiplied(n.colorBl, n.worldAlpha),
                !.nodes[id].premultipliedColorBr =
                    IF same THEN tl ELSE mergeColorAlphaPremultiplied(n.colorBr, n.worldAlpha)]
    ELSE w

\* the aliased parentClippingRect of the root is read after the Clipping step wrote it
updateStepRenderState(w, id, parentClippingRect, aliased) ==
    IF hasFlag(w, id, RenderState)
    THEN setUpdateType(
             updateRenderState(w, id,
                 IF aliased THEN w.nodes[id].clippingRect ELSE parentClippingRect),
             id, {IsRenderable})
    ELSE w

updateStepIsRenderable(w, id) ==
    IF hasFlag(w, id, IsRenderable) THEN updateIsRenderable(w, id) ELSE w

updateStepCalculatedZIndex(w, id) ==
    IF w.nodes[id].parent # Null /\ hasFlag(w, id, CalculatedZIndex)
    THEN setUpdateType(calculateZIndex(w, id), w.nodes[id].parent, {ZIndexSortedChildren})
    ELSE w

updateStepZIndexSortedChildren(w, id) ==
    IF hasFlag(w, id, ZIndexSortedChildren) THEN sortChildren(w, id) ELSE w

\* the flags the Global, Clipping and WorldAlpha steps hand to the children
\* the children are not told that the world alpha of their parent changed
childUpdateTypeNoWorldAlpha(ranGlobal, ranClipping, ranWorldAlpha) ==
    (IF ranGlobal THEN {Global} ELSE {}) \cup (IF ranClipping THEN {Clipping} ELSE {})

childUpdateTypeOf(ranGlobal, ranClipping, ranWorldAlpha) ==
    (IF ranGlobal THEN {Global} ELSE {})
        \cup (IF ranClipping THEN {Clipping} ELSE {})
        \cup (IF ranWorldAlpha THEN {WorldAlpha} ELSE {})

RECURSIVE update(_, _, _, _)
RECURSIVE updateChildren(_, _, _, _)

updateChildren(w, id, i, childUpdateType) ==
    IF i > Len(w.nodes[id].children)
    THEN w
    ELSE LET child == w.nodes[id].children[i]
             w1 == setUpdateType(w, child, childUpdateType)
             w2 == IF w1.nodes[child].updateType = None
                   THEN w1
                   ELSE update(w1, child, w1.nodes[id].clippingRect, FALSE)
         IN  updateChildren(w2, id, i + 1, childUpdateType)

\* a Children step that also descends into the children of an rtt node
updateStepChildrenIntoRtt(w, id, childUpdateType) ==
    IF /\ hasFlag(w, id, Children)
       /\ Len(w.nodes[id].children) # 0
    THEN updateChildren(w, id, 1, childUpdateType)
    ELSE w

updateStepChildren(w, id, childUpdateType) ==
    IF /\ hasFlag(w, id, Children)
       /\ Len(w.nodes[id].children) # 0
       /\ ~w.nodes[id].rtt
    THEN updateChildren(w, id, 1, childUpdateType)
    ELSE w

\* a pass that leaves the flags it served pending
resetUpdateTypeSkipped(w, id) == w

\* reset update type
resetUpdateType(w, id) == [w EXCEPT !.nodes[id].updateType = None]

update(w, id, parentClippingRect, aliased) ==
    LET s1 == updateStepScaleRotate(w, id)
        s2 == updateStepLocal(s1, id)
        s3 == updateStepParentRenderTexture(s2, id)
        s4 == updateStepRenderTexture(s3, id)
        s5 == updateStepGlobal(s4, id)
        s6 == updateStepClipping(s5, id, parentClippingRect, aliased)
        s7 == updateStepWorldAlpha(s6, id)
        s8 == updateStepPremultipliedColors(s7, id)
        s9 == updateStepRenderState(s8, id, parentClippingRect, aliased)
        s10 == updateStepIsRenderable(s9, id)
        s11 == updateStepCalculatedZIndex(s10, id)
        s12 == updateStepChildren(s11, id,
                   childUpdateTypeOf(hasFlag(s4, id, Global),
                                     hasFlag(s5, id, Clipping),
                                     hasFlag(s6, id, WorldAlpha)))
        s13 == updateStepZIndexSortedChildren(s12, id)
    IN  resetUpdateType(s13, id)

----------------------------------------------------------------------------
(* Property setters *)

setX(w, id, value) ==
    IF w.nodes[id].x # value
    THEN setUpdateType([w EXCEPT !.nodes[id].x = value], id, {Local})
    ELSE w

setY(w, id, value) ==
    IF w.nodes[id].y # value
    THEN setUpdateType([w EXCEPT !.nodes[id].y = value], id, {Local})
    ELSE w

\* unloadTexture: the renderable-owner registration it withdraws
\* the sequence without its element at index i: children.splice(i, 1)
splice(s, i) == SubSeq(s, 1, i - 1) \o SubSeq(s, i + 1, Len(s))

indexOf(s, e) ==
    IF \E i \in 1 .. Len(s) : s[i] = e
    THEN CHOOSE i \in 1 .. Len(s) : s[i] = e /\ \A j \in 1 .. i - 1 : s[j] # e
    ELSE 0

unloadTexture(w, id) ==
    IF w.nodes[id].texture # Null
    THEN setRenderableOwner(w, w.nodes[id].texture, id, FALSE)
    ELSE w

setTexture(w, id, value) ==
    IF w.nodes[id].texture = value
    THEN w
    ELSE LET oldTexture == w.nodes[id].texture
             w1 == IF oldTexture # Null
                   THEN unloadTexture(setRenderableOwner(w, oldTexture, id, FALSE), id)
                   ELSE w
             w2 == [w1 EXCEPT !.nodes[id].texture = value]
             w3 == IF value # Null
                   THEN setRenderableOwner(w2, value, id, w2.nodes[id].isRenderable)
                   ELSE w2
         IN  setUpdateType(w3, id, {IsRenderable})

\* this.texture = txManager.loadTexture('RenderTexture', {width, height});
\* this.textureOptions.preload = true. The texture manager hands out a new
\* render texture on every call
loadRenderTexture(w, id) ==
    LET created == [type |-> "RenderTexture",
                    width |-> w.nodes[id].width, height |-> w.nodes[id].height]
        w1 == [w EXCEPT !.textures = Append(@, created)]
        w2 == setTexture(w1, id, Len(w1.textures))
    IN  [w2 EXCEPT !.nodes[id].preload = TRUE]

\* the resized node keeps the render texture it has
resizeKeepTexture(w, id) == w

\* the rtt branch of the width and height setters
resizeRenderTexture(w, id) ==
    IF w.nodes[id].rtt
    THEN setUpdateType(loadRenderTexture(w, id), id, {RenderTexture})
    ELSE w

setWidth(w, id, value) ==
    IF w.nodes[id].width # value
    THEN resizeRenderTexture(
             setUpdateType([w EXCEPT !.nodes[id].width = value], id, {Local}), id)
    ELSE w

setHeight(w, id, value) ==
    IF w.nodes[id].height # value
    THEN resizeRenderTexture(
             setUpdateType([w EXCEPT !.nodes[id].height = value], id, {Local}), id)
    ELSE w

\* renderer.renderToTexture(node): the node joins the renderer's list once
renderToTexture(w, id) ==
    IF indexOf(w.rttNodes, id) # 0 THEN w
    ELSE [w EXCEPT !.rttNodes = <<id>> \o @]

\* renderer.removeRTTNode(node)
removeRTTNode(w, id) ==
    IF indexOf(w.rttNodes, id) = 0 THEN w
    ELSE [w EXCEPT !.rttNodes = splice(@, indexOf(@, id))]

RECURSIVE forEachChildClearParentHasRenderTexture(_, _, _)
forEachChildClearParentHasRenderTexture(w, id, i) ==
    IF i > Len(w.nodes[id].children)
    THEN w
    ELSE forEachChildClearParentHasRenderTexture(
             [w EXCEPT !.nodes[w.nodes[id].children[i]].parentHasRenderTexture = FALSE],
             id, i + 1)

setRtt(w, id, value) ==
    LET wasRtt == w.nodes[id].rtt
        w1 == IF wasRtt THEN [w EXCEPT !.nodes[id].rtt = value] ELSE w
    IN  IF wasRtt /\ value = FALSE /\ w1.nodes[id].texture # Null
        THEN removeRTTNode(
                 forEachChildClearParentHasRenderTexture(
                     setUpdateType(unloadTexture(w1, id), id, All), id, 1),
                 id)
        ELSE IF value = FALSE
        THEN w1
        ELSE LET w2 == loadRenderTexture(w1, id)
                 w3 == [w2 EXCEPT !.nodes[id].rtt = TRUE,
                                  !.nodes[id].hasRTTupdates = TRUE]
                 w4 == setUpdateType(w3, id, All)
             IN  renderToTexture(forEachChildSetUpdateType(w4, id, 1, All), id)

\* the src setter; the texture manager returns the image texture of the URL
setSrc(w, id, imageUrl) ==
    IF w.nodes[id].src = imageUrl
    THEN w
    ELSE LET w1 == [w EXCEPT !.nodes[id].src = imageUrl]
         IN  IF imageUrl = ""
             THEN setTexture(w1, id, Null)
             ELSE setTexture(w1, id, ImageTexture)

setScaleX(w, id, value) ==
    IF w.nodes[id].scaleX # value
    THEN setUpdateType([w EXCEPT !.nodes[id].scaleX = value], id, {ScaleRotate})
    ELSE w

setMountX(w, id, value) ==
    IF w.nodes[id].mountX # value
    THEN setUpdateType([w EXCEPT !.nodes[id].mountX = value], id, {Local})
    ELSE w

setRotation(w, id, value) ==
    IF w.nodes[id].rotation # value
    THEN setUpdateType([w EXCEPT !.nodes[id].rotation = value], id, {ScaleRotate})
    ELSE w

setAlpha(w, id, value) ==
    setUpdateType([w EXCEPT !.nodes[id].alpha = value], id,
                  {PremultipliedColors, WorldAlpha})

setZIndexLocked(w, id, value) ==
    forEachChildSetUpdateType(
        setUpdateType([w EXCEPT !.nodes[id].zIndexLocked = value], id,
                      {CalculatedZIndex, Children}),
        id, 1, {CalculatedZIndex})

setZIndex(w, id, value) ==
    forEachChildSetUpdateType(
        setUpdateType([w EXCEPT !.nodes[id].zIndex = value], id,
                      {CalculatedZIndex, Children}),
        id, 1, {CalculatedZIndex})

setClipping(w, id, value) ==
    setUpdateType([w EXCEPT !.nodes[id].clipping = value], id, {Clipping})

setColorTl(w, id, value) ==
    setUpdateType([w EXCEPT !.nodes[id].colorTl = value], id, {PremultipliedColors})

setColorTr(w, id, value) ==
    setUpdateType([w EXCEPT !.nodes[id].colorTr = value], id, {PremultipliedColors})

setColorBl(w, id, value) ==
    setUpdateType([w EXCEPT !.nodes[id].colorBl = value], id, {PremultipliedColors})

setColorBr(w, id, value) ==
    setUpdateType([w EXCEPT !.nodes[id].colorBr = value], id, {PremultipliedColors})

setColorTop(w, id, value) ==
    LET n == w.nodes[id]
        w1 == IF n.colorTl # value \/ n.colorTr # value
              THEN setColorTr(setColorTl(w, id, value), id, value)
              ELSE w
    IN  setUpdateType([w1 EXCEPT !.nodes[id].colorTop = value], id, {PremultipliedColors})

setColorBottom(w, id, value) ==
    LET n == w.nodes[id]
        w1 == IF n.colorBl # value \/ n.colorBr # value
              THEN setColorBr(setColorBl(w, id, value), id, value)
              ELSE w
    IN  setUpdateType([w1 EXCEPT !.nodes[id].colorBottom = value], id, {PremultipliedColors})

setColorLeft(w, id, value) ==
    LET n == w.nodes[id]
        w1 == IF n.colorTl # value \/ n.colorBl # value
              THEN setColorBl(setColorTl(w, id, value), id, value)
              ELSE w
    IN  setUpdateType([w1 EXCEPT !.nodes[id].colorLeft = value], id, {PremultipliedColors})

setColorRight(w, id, value) ==
    LET n == w.nodes[id]
        w1 == IF n.colorTr # value \/ n.colorBr # value
              THEN setColorBr(setColorTr(w, id, value), id, value)
              ELSE w
    IN  setUpdateType([w1 EXCEPT !.nodes[id].colorRight = value], id, {PremultipliedColors})

setColor(w, id, value) ==
    LET w1 == setColorRight(
                  setColorLeft(
                      setColorBottom(setColorTop(w, id, value), id, value),
                      id, value),
                  id, value)
    IN  setUpdateType([w1 EXCEPT !.nodes[id].color = value], id, {PremultipliedColors})

setShader(w, id, value) ==
    IF w.nodes[id].shader = value
    THEN w
    ELSE LET w1 == [w EXCEPT !.nodes[id].shader = value]
         IN  IF value = DefShader THEN setUpdateType(w1, id, {IsRenderable}) ELSE w1

setParent(w, id, newParent) ==
    LET oldParent == w.nodes[id].parent
        w1 == [w EXCEPT !.nodes[id].parent = newParent]
        w2 == IF oldParent # Null
              THEN setUpdateType(
                       [w1 EXCEPT !.nodes[oldParent].children =
                            splice(@, indexOf(@, id))],
                       oldParent, {Children, ZIndexSortedChildren})
              ELSE w1
        w3 == IF newParent # Null
              THEN LET a == [w2 EXCEPT !.nodes[newParent].children = Append(@, id)]
                       b == setUpdateType(a, id, All)
                       c == setUpdateType(b, newParent, {Children, ZIndexSortedChildren})
                   IN  IF c.nodes[newParent].rtt \/ c.nodes[newParent].parentHasRenderTexture
                       THEN setRTTUpdates(c, id)
                       ELSE c
              ELSE w2
    IN  IF oldParent = newParent THEN w ELSE updateScaleRotateTransform(w3, id)

\* destroy() of a node that is no render-to-texture node
destroy(w, id) ==
    LET w1 == unloadTexture(w, id)
        w2 == [w1 EXCEPT
                 !.nodes[id].clippingRect.valid = FALSE,
                 !.nodes[id].isRenderable = FALSE,
                 !.nodes[id].renderCoords = NoCoords,
                 !.nodes[id].renderBound = NoBound,
                 !.nodes[id].strictBound = NoBound,
                 !.nodes[id].preloadBound = NoBound,
                 !.nodes[id].globalTransform = NoMatrix,
                 !.nodes[id].scaleRotateTransform = NoMatrix,
                 !.nodes[id].localTransform = NoMatrix,
                 !.nodes[id].texture = Null,
                 !.nodes[id].shader = DefShader,
                 !.nodes[id].destroyed = TRUE]
        w3 == IF w2.nodes[id].rtt THEN removeRTTNode(w2, id) ELSE w2
    IN  setParent(w3, id, Null)

\* get parentRenderTexture: the nearest ancestor with rtt, Null when none
parentRenderTexture(ns, id) ==
    LET as == ancestors(ns, id)
    IN  IF \E i \in 1 .. Len(as) : ns[as[i]].rtt
        THEN as[CHOOSE i \in 1 .. Len(as) :
                    ns[as[i]].rtt /\ \A j \in 1 .. i - 1 : ~ns[as[j]].rtt]
        ELSE Null

\* the gate tests the nearest rtt ancestor only, not the cached flag
renderQuadsUngated(w, id, renderToTextureActive, activeRttNode) ==
    ~(/\ hasRttAncestor(w.nodes, id)
      /\ (~renderToTextureActive \/ parentRenderTexture(w.nodes, id) # activeRttNode))

\* renderQuads(renderer): TRUE when the call reaches renderer.addQuad
renderQuads(w, id, renderToTextureActive, activeRttNode) ==
    ~(/\ w.nodes[id].parentHasRenderTexture
      /\ (~renderToTextureActive \/ parentRenderTexture(w.nodes, id) # activeRttNode))

\* the renderer's render-to-texture pass over the children of one rtt node:
\* each child is updated with an invalid clipping rect and its hasRTTupdates
\* is cleared
RECURSIVE renderRTTChildren(_, _, _)
renderRTTChildren(w, id, i) ==
    IF i > Len(w.nodes[id].children)
    THEN w
    ELSE LET child == w.nodes[id].children[i]
             w1 == update(w, child, NoRect, FALSE)
         IN  renderRTTChildren([w1 EXCEPT !.nodes[child].hasRTTupdates = FALSE],
                               id, i + 1)

\* the renderer's render-to-texture pass: every registered node that has
\* pending rtt updates gets its children updated and drawn into its texture
RECURSIVE renderRTTNodes(_, _)
renderRTTNodes(w, i) ==
    IF i > Len(w.rttNodes)
    THEN w
    ELSE LET node == w.rttNodes[i]
         IN  IF ~w.nodes[node].hasRTTupdates
             THEN renderRTTNodes(w, i + 1)
             ELSE renderRTTNodes(
                      [renderRTTChildren(w, node, 1) EXCEPT
                           !.nodes[node].hasRTTupdates = FALSE],
                      i + 1)

----------------------------------------------------------------------------
(* Operations of the program as actions *)

NoProbe == [fn |-> "none"]
LegacyIdle == [id \in Nodes |-> [constructed |-> FALSE, parent |-> Null, children |-> << >>]]

LoadTextures == {1, 2}

TextureStates == {"loading", "loaded", "failed", "freed"}

\* no load started: every texture freed, nothing queued, nobody listening
LoaderIdle ==
    [state |-> [t \in LoadTextures |-> "freed"],
     error |-> [t \in LoadTextures |-> "none"],
     changes |-> [t \in LoadTextures |-> 0],
     microtasks |-> << >>,
     listeners |-> << >>,
     observed |-> [id \in Nodes |-> << >>],
     keepsDuplicates |-> TRUE]

Did(op, id, arg) == last' = [op |-> op, node |-> id, arg |-> arg]

\* one call from the application between two frames
Mutation(op, id, arg, w) ==
    /\ ops < MaxOps
    /\ Commit([w EXCEPT !.log = {}])
    /\ Did(op, id, arg)
    /\ ops' = ops + 1
    /\ UNCHANGED <<boundsMargin, legacy, probe, renderOp, loader>>

\* a property assignment: which property it was can be read from the node
Assign(w) == Mutation("set", Null, {}, w)

Live(id) == ~nodes[id].destroyed

\* node a is node b or one of its ancestors
isAncestorOrSelf(a, b) ==
    a = b \/ \E i \in 1 .. Len(ancestors(nodes, b)) : ancestors(nodes, b)[i] = a

InTree(id) == isAncestorOrSelf(Root, id)

Masks == {None, {Children}, {Local}, {Clipping, IsRenderable}, All}

CallSetUpdateType(id, type) ==
    /\ Live(id)
    /\ Mutation("setUpdateType", id, type, setUpdateType(World, id, type))

\* node.parent = p; the application assigns no parent to the root and builds no cycle
AssignParent(id, p) ==
    /\ id # Root
    /\ Live(id)
    /\ p # Null => Live(p) /\ ~isAncestorOrSelf(id, p)
    /\ Assign(setParent(World, id, p))

CallDestroy(id) ==
    /\ id # Root
    /\ Live(id)
    /\ Assign(destroy(World, id))

\* one frame: the stage updates the root with the root's own clipping rect
UpdatePass ==
    /\ Commit([update(World, Root, nodes[Root].clippingRect, TRUE) EXCEPT !.log = {}])
    /\ Did("update", Root, {})
    /\ UNCHANGED <<ops, boundsMargin, legacy, probe, renderOp, loader>>

\* the same frame, with the events it emits and the setRenderableOwner calls
\* it makes recorded, and marked when it directly follows another frame
RecordedPass ==
    /\ Commit(update(World, Root, nodes[Root].clippingRect, TRUE))
    /\ Did("update", Root, IF last.op = "update" THEN {"again"} ELSE {})
    /\ UNCHANGED <<ops, boundsMargin, legacy, probe, renderOp, loader>>

----------------------------------------------------------------------------
(* Specification of the tree and its dirty flags: the nodes are constructed *)
(* as a chain below the root, each with the node before it as parent        *)

RECURSIVE constructChain(_, _)
constructChain(w, id) ==
    IF id > NumNodes THEN w ELSE constructChain(setParent(w, id, id - 1), id + 1)

InitIdle ==
    /\ owners = {}
    /\ textures = ImageTextures
    /\ rttNodes = << >>
    /\ renderOp = [textures |-> << >>, maxTextures |-> 1]
    /\ emitted = {}
    /\ last = [op |-> "init", node |-> Null, arg |-> {}]
    /\ ops = 0
    /\ legacy = LegacyIdle
    /\ loader = LoaderIdle
    /\ probe = NoProbe

Init ==
    /\ InitIdle
    /\ boundsMargin = <<0, 0, 0, 0>>
    /\ nodes = constructChain(
                   [nodes |-> [id \in Nodes |-> CoreNode(0, 0, 10, 10, FALSE, 1)],
                    owners |-> {}, margin |-> <<0, 0, 0, 0>>,
                    textures |-> ImageTextures, rttNodes |-> << >>, log |-> {}], 2).nodes

Next ==
    \/ \E id \in Nodes : \E type \in Masks : CallSetUpdateType(id, type)
    \/ \E id \in Nodes : \E p \in Nodes \cup {Null} : AssignParent(id, p)
    \/ \E id \in Nodes : CallDestroy(id)
    \/ UpdatePass

Spec == Init /\ [][Next]_vars

----------------------------------------------------------------------------
(* Specification of z-order: every node is constructed as a child of the    *)
(* root; the application assigns zIndex, zIndexLocked and parents           *)

RECURSIVE constructFlat(_, _)
constructFlat(w, id) ==
    IF id > NumNodes THEN w ELSE constructFlat(setParent(w, id, Root), id + 1)

ZValues == {0, 1, 2}

AssignZIndex(id, value) ==
    /\ Live(id)
    /\ nodes[id].zIndex # value
    /\ Assign(setZIndex(World, id, value))

AssignZIndexLocked(id, value) ==
    /\ Live(id)
    /\ nodes[id].zIndexLocked # value
    /\ Assign(setZIndexLocked(World, id, value))

InitZIndex ==
    /\ InitIdle
    /\ boundsMargin = <<0, 0, 0, 0>>
    /\ nodes = constructFlat(
                   [nodes |-> [id \in Nodes |-> CoreNode(0, 0, 10, 10, FALSE, 1)],
                    owners |-> {}, margin |-> <<0, 0, 0, 0>>,
                    textures |-> ImageTextures, rttNodes |-> << >>, log |-> {}], 2).nodes

NextZIndex ==
    \/ \E id \in Nodes : \E v \in ZValues : AssignZIndex(id, v)
    \/ \E id \in Nodes : \E v \in {0, 1} : AssignZIndexLocked(id, v)
    \/ \E id \in Nodes : \E p \in Nodes \cup {Null} : AssignParent(id, p)
    \/ UpdatePass

SpecZIndex == InitZIndex /\ [][NextZIndex]_vars

----------------------------------------------------------------------------
(* The first CoreNode, src/core/CoreNode.ts: only the tree relationship *)

\* new CoreNode(stage, {parent: p}): props.parent is stored as given
LegacyConstruct(id, p) ==
    /\ ops < MaxOps
    /\ ~legacy[id].constructed
    /\ p # Null => legacy[p].constructed
    /\ legacy' = [legacy EXCEPT ![id] =
                     [constructed |-> TRUE, parent |-> p, children |-> << >>]]
    /\ Did("construct", id, {p})
    /\ ops' = ops + 1
    /\ UNCHANGED <<nodes, owners, boundsMargin, probe, textures, rttNodes, renderOp, emitted, loader>>

\* the parent setter; a failed assertTruthy throws after props.parent was stored
legacySetParent(lg, id, newParent) ==
    LET oldParent == lg[id].parent
        l1 == [lg EXCEPT ![id].parent = newParent]
        index == IF oldParent # Null THEN indexOf(l1[oldParent].children, id) ELSE 0
        l2 == IF oldParent # Null
              THEN [l1 EXCEPT ![oldParent].children = splice(@, index)]
              ELSE l1
        l3 == IF newParent # Null
              THEN [l2 EXCEPT ![newParent].children = Append(@, id)]
              ELSE l2
    IN  IF oldParent # Null /\ index = 0 THEN l1 ELSE l3

LegacyAssignParent(id, p) ==
    /\ ops < MaxOps
    /\ legacy[id].constructed
    /\ p # Null => legacy[p].constructed
    /\ legacy' = legacySetParent(legacy, id, p)
    /\ Did("parent", id, {p})
    /\ ops' = ops + 1
    /\ UNCHANGED <<nodes, owners, boundsMargin, probe, textures, rttNodes, renderOp, emitted, loader>>

InitLegacy ==
    /\ InitIdle
    /\ boundsMargin = <<0, 0, 0, 0>>
    /\ nodes = [id \in Nodes |-> CoreNode(0, 0, 0, 0, FALSE, 0)]

NextLegacy ==
    \/ \E id \in Nodes : \E p \in Nodes \cup {Null} : LegacyConstruct(id, p)
    \/ \E id \in Nodes : \E p \in Nodes \cup {Null} : LegacyAssignParent(id, p)

SpecLegacy == InitLegacy /\ [][NextLegacy]_vars

----------------------------------------------------------------------------
(* Claims about the tree and the dirty flags *)

count(s, e) == Cardinality({i \in 1 .. Len(s) : s[i] = e})

\* the ancestors of a node before an operation, nearest first
ancestorsBefore(id) == ancestors(nodes, id)

\* index of the first ancestor that already has Children set, or one past the last
firstWithChildren(id) ==
    LET anc == ancestorsBefore(id)
        hit == {i \in 1 .. Len(anc) : Children \in nodes[anc[i]].updateType}
    IN  IF hit = {} THEN Len(anc) + 1
        ELSE CHOOSE i \in hit : \A j \in hit : i <= j

C2_LegacyChildrenMatchParent ==
    \A p \in Nodes : \A c \in Nodes :
        legacy[p].constructed /\ legacy[c].constructed =>
            /\ (count(legacy[p].children, c) >= 1) = (legacy[c].parent = p)
            /\ count(legacy[p].children, c) <= 1

\* C2 for the CoreNode whose constructor assigns the parent through the setter
C2_ChildrenMatchParent ==
    \A p \in Nodes : \A c \in Nodes :
        /\ (count(nodes[p].children, c) >= 1) = (nodes[c].parent = p)
        /\ count(nodes[p].children, c) <= 1

----------------------------------------------------------------------------
(* Specification of the geometry: the scene root (1920x1080) -> A at       *)
(* (100,100) sized 300x300, clipping -> B at (50,50) sized 500x500; further *)
(* nodes are constructed without a parent. The application then moves,     *)
(* rotates, clips and reparents the nodes between frames. A quarter turn   *)
(* is exact here, and two of them in one chain would make an exact half    *)
(* turn with tb = tc = 0, which the sines and cosines of floating point    *)
(* never give; so A is the node that turns.                                *)

NodeA == 2
NodeB == 3

SceneNode(id) ==
    IF id = Root THEN CoreNode(0, 0, 1920, 1080, FALSE, 0)
    ELSE IF id = NodeA THEN CoreNode(100, 100, 300, 300, TRUE, 1)
    ELSE IF id = NodeB THEN CoreNode(50, 50, 500, 500, FALSE, 1)
    ELSE CoreNode(0, 0, 100, 100, FALSE, 1)

SceneWorld(margin) ==
    setParent(
        setParent([nodes |-> [id \in Nodes |-> SceneNode(id)],
                   owners |-> {}, margin |-> margin,
                   textures |-> ImageTextures, rttNodes |-> << >>, log |-> {}],
                  NodeA, Root),
        NodeB, NodeA)

\* the stage's boundsMargin, [top, right, bottom, left]
Margins == {<<0, 0, 0, 0>>, <<0, 300, 300, 0>>}

XValues == {50, 450}

AssignX(id, value) ==
    /\ Live(id)
    /\ nodes[id].x # value
    /\ Assign(setX(World, id, value))

AssignClipping(id, value) ==
    /\ Live(id)
    /\ nodes[id].clipping # value
    /\ Assign(setClipping(World, id, value))

AssignRotation(id, value) ==
    /\ Live(id)
    /\ nodes[id].rotation # value
    /\ Assign(setRotation(World, id, value))

AssignScaleX(id, value) ==
    /\ Live(id)
    /\ nodes[id].scaleX # value
    /\ Assign(setScaleX(World, id, value))

AssignMountX(id, value) ==
    /\ Live(id)
    /\ nodes[id].mountX # value
    /\ Assign(setMountX(World, id, value))

InitScene ==
    /\ InitIdle
    /\ boundsMargin \in Margins
    /\ nodes = SceneWorld(boundsMargin).nodes

NextScene ==
    \/ /\ ops < MaxSceneOps
       /\ \/ \E id \in Nodes \ {Root} : \E v \in XValues : AssignX(id, v)
          \/ \E id \in Nodes : \E v \in BOOLEAN : AssignClipping(id, v)
          \/ \E v \in {0, 1} : AssignRotation(NodeA, v)
          \/ \E v \in {1, 2} : AssignScaleX(NodeA, v)
          \/ \E id \in Nodes \ {Root} : \E v \in {0, 1} : AssignMountX(id, v)
          \/ \E id \in Nodes : \E p \in Nodes \cup {Null} : AssignParent(id, p)
    \/ UpdatePass

SpecScene == InitScene /\ [][NextScene]_vars

----------------------------------------------------------------------------
(* Claims about the geometry *)

AfterPass == last.op = "update"

Unturned(m) == m.ta = 1 /\ m.tb = 0 /\ m.tc = 0 /\ m.td = 1

\* global = parent's global o local, for one node with a parent
ComposedFromParent(id) ==
    nodes[id].globalTransform =
        multiply(nodes[nodes[id].parent].globalTransform, nodes[id].localTransform)

\* the global translation is the parent's plus the mount-adjusted position
OffsetFromParent(id) ==
    LET n == nodes[id]
        pg == nodes[n.parent].globalTransform
    IN  /\ n.globalTransform.tx = pg.tx + (n.x - n.mountX * n.width)
        /\ n.globalTransform.ty = pg.ty + (n.y - n.mountY * n.height)

PlainNode(id) ==
    nodes[id].rotation = 0 /\ nodes[id].scaleX = 1 /\ nodes[id].scaleY = 1

SceneUntouched == ops = 0 /\ AfterPass

chain(id) == <<id>> \o ancestors(nodes, id)

Clips(id) ==
    /\ nodes[id].clipping
    /\ nodes[id].globalTransform.tb = 0
    /\ nodes[id].globalTransform.tc = 0

\* the rectangle of a node on screen, as [x1, x2) x [y1, y2)
Area(id) ==
    LET gt == nodes[id].globalTransform
    IN  [x1 |-> gt.tx, y1 |-> gt.ty,
         x2 |-> gt.tx + nodes[id].width * gt.ta,
         y2 |-> gt.ty + nodes[id].height * gt.td]

Everywhere == [x1 |-> -100000, y1 |-> -100000, x2 |-> 100000, y2 |-> 100000]

Meet(a, b) ==
    [x1 |-> Max(a.x1, b.x1), y1 |-> Max(a.y1, b.y1),
     x2 |-> Min(a.x2, b.x2), y2 |-> Min(a.y2, b.y2)]

\* the intersection of the clip rectangles of the first k nodes of a chain,
\* taken from the node upward
RECURSIVE MeetOfClips(_, _)
MeetOfClips(c, k) ==
    IF k = 0 THEN Everywhere
    ELSE LET rest == MeetOfClips(c, k - 1)
         IN  IF Clips(c[k]) THEN Meet(Area(c[k]), rest) ELSE rest

Empty(a) == a.x2 <= a.x1 \/ a.y2 <= a.y1

AreaOfRect(r) == [x1 |-> r.x, y1 |-> r.y, x2 |-> r.x + r.width, y2 |-> r.y + r.height]

SameArea(a, b) == (Empty(a) /\ Empty(b)) \/ a = b

\* C7: after an update pass the clipping rect of every node of the tree is
\* valid exactly when the node or one of its ancestors clips unrotated, and
\* then covers the intersection of the rectangles of all of those, taken in the
\* order from the node upward (the pass intersects from the root downward); a
\* non-clipping node below a valid clipping rect has exactly its parent's rect.
C7_ClippingRectIsIntersection ==
    AfterPass =>
        \A id \in Nodes :
            InTree(id) =>
                LET c == chain(id)
                    r == nodes[id].clippingRect
                IN  /\ r.valid = (\E k \in 1 .. Len(c) : Clips(c[k]))
                    /\ r.valid => SameArea(AreaOfRect(r), MeetOfClips(c, Len(c)))
                    /\ /\ ~Clips(id)
                       /\ nodes[id].parent # Null
                       /\ nodes[nodes[id].parent].clippingRect.valid
                       => r = nodes[nodes[id].parent].clippingRect

\* root, A and B all clip: B's rect is what the three rectangles share
C7_Witness ==
    /\ AfterPass
    /\ nodes[NodeB].parent = NodeA
    /\ nodes[NodeA].parent = Root
    /\ nodes[Root].clipping /\ nodes[NodeA].clipping /\ nodes[NodeB].clipping
    /\ nodes[NodeA].clippingRect = Rect(100, 100, 300, 300, TRUE)
    /\ nodes[NodeB].clippingRect = Rect(150, 150, 250, 250, TRUE)

ValidHasReason(id) ==
    nodes[id].clippingRect.valid =>
        \/ Clips(id)
        \/ /\ nodes[id].parent # Null
           /\ nodes[nodes[id].parent].clippingRect.valid

----------------------------------------------------------------------------
(* Specification of renderability: a chain of nodes 100x100 at (50,50) below *)
(* a root of 400x400, all of one colour; the application then changes       *)
(* alpha, colour, clipping, shader, texture, size, position and parent of   *)
(* the nodes and destroys nodes between frames.                             *)

RenderNode(id, color) ==
    IF id = Root THEN CoreNode(0, 0, 400, 400, FALSE, 0)
    ELSE CoreNode(50, 50, 100, 100, FALSE, color)

RenderWorld(color) ==
    constructChain([nodes |-> [id \in Nodes |-> RenderNode(id, color)],
                    owners |-> {}, margin |-> <<0, 0, 0, 0>>,
                    textures |-> ImageTextures, rttNodes |-> << >>, log |-> {}], 2)

AssignAlpha(id, value) ==
    /\ Live(id)
    /\ nodes[id].alpha # value
    /\ Assign(setAlpha(World, id, value))

AssignColor(id, value) ==
    /\ Live(id)
    /\ nodes[id].color # value
    /\ Assign(setColor(World, id, value))

AssignShader(id, value) ==
    /\ Live(id)
    /\ Assign(setShader(World, id, value))

AssignTexture(id, value) ==
    /\ Live(id)
    /\ Assign(setTexture(World, id, value))

AssignWidth(id, value) ==
    /\ Live(id)
    /\ Assign(setWidth(World, id, value))

AssignHeight(id, value) ==
    /\ Live(id)
    /\ Assign(setHeight(World, id, value))

InitRender ==
    /\ InitIdle
    /\ boundsMargin = <<0, 0, 0, 0>>
    /\ \E color \in {0, 1} : nodes = RenderWorld(color).nodes

NextRender ==
    \/ /\ ops < MaxRenderOps
       /\ \/ \E id \in Nodes : \E v \in {0, 1} : AssignAlpha(id, v)
          \/ \E id \in Nodes : \E v \in {0, 1} : AssignColor(id, v)
          \/ \E id \in Nodes : \E v \in BOOLEAN : AssignClipping(id, v)
          \/ \E id \in Nodes : \E v \in {DefShader, CustomShader} : AssignShader(id, v)
          \/ \E id \in Nodes : \E v \in {Null, ImageTexture} : AssignTexture(id, v)
          \/ \E id \in Nodes : \E v \in {0, 100} : AssignWidth(id, v)
          \/ \E id \in Nodes : \E v \in {0, 100} : AssignHeight(id, v)
          \/ \E id \in Nodes \ {Root} : \E v \in XValues : AssignX(id, v)
          \/ \E id \in Nodes : \E p \in Nodes \cup {Null} : AssignParent(id, p)
          \/ \E id \in Nodes : CallDestroy(id)
    \/ RecordedPass

SpecRender == InitRender /\ [][NextRender]_vars

----------------------------------------------------------------------------
(* Specification of render-to-texture: a chain below the root, each node    *)
(* constructed with or without rtt; the application assigns rtt, sizes,     *)
(* textures, shaders, alpha and parents; the stage draws frames and the     *)
(* renderer asks renderable nodes for their quads                           *)

MaxRttOps == 2

RECURSIVE constructRtt(_, _, _)
constructRtt(w, id, rtts) ==
    IF id > NumNodes THEN w
    ELSE constructRtt(setRtt(setParent(w, id, id - 1), id, rtts[id]), id + 1, rtts)

RttWorld(rtts) ==
    constructRtt(
        setRtt([nodes |-> [id \in Nodes |-> RenderNode(id, 1)],
                owners |-> {}, margin |-> <<0, 0, 0, 0>>,
                textures |-> ImageTextures, rttNodes |-> << >>, log |-> {}],
               Root, rtts[Root]),
        2, rtts)

AssignRtt(id, value) ==
    /\ Live(id)
    /\ Assign(setRtt(World, id, value))

AssignSrc(id, value) ==
    /\ Live(id)
    /\ Assign(setSrc(World, id, value))

\* one frame: the root is updated, then the renderer runs its
\* render-to-texture pass
DrawFrame ==
    /\ Commit([renderRTTNodes(update(World, Root, nodes[Root].clippingRect, TRUE), 1)
                  EXCEPT !.log = {}])
    /\ Did("update", Root, {})
    /\ UNCHANGED <<ops, boundsMargin, legacy, probe, renderOp, loader>>

\* within a frame, after the update passes, the renderer asks a renderable
\* node for its quad, outside a render-to-texture pass or while it renders
\* into the texture of one of the rtt nodes
CallRenderQuads(id, renderToTextureActive, activeRttNode) ==
    /\ last.op = "update"
    /\ Live(id)
    /\ nodes[id].isRenderable
    /\ renderToTextureActive => activeRttNode # Null /\ nodes[activeRttNode].rtt
    /\ ~renderToTextureActive => activeRttNode = Null
    /\ probe' = [fn |-> "renderQuads", node |-> id,
                 renderToTextureActive |-> renderToTextureActive,
                 activeRttNode |-> activeRttNode,
                 addQuad |-> renderQuads(World, id, renderToTextureActive, activeRttNode)]
    /\ UNCHANGED <<nodes, owners, boundsMargin, last, ops, legacy, textures,
                   rttNodes, renderOp, emitted, loader>>

InitRtt ==
    /\ \E rtts \in [Nodes -> BOOLEAN] :
          /\ nodes = RttWorld(rtts).nodes
          /\ owners = RttWorld(rtts).owners
          /\ textures = RttWorld(rtts).textures
          /\ rttNodes = RttWorld(rtts).rttNodes
    /\ boundsMargin = <<0, 0, 0, 0>>
    /\ renderOp = [textures |-> << >>, maxTextures |-> 1]
    /\ emitted = {}
    /\ last = [op |-> "init", node |-> Null, arg |-> {}]
    /\ ops = 0
    /\ legacy = LegacyIdle
    /\ loader = LoaderIdle
    /\ probe = NoProbe

NextRtt ==
    /\ probe = NoProbe
    /\ \/ /\ ops < MaxRttOps
          /\ \/ \E id \in Nodes : \E v \in BOOLEAN : AssignRtt(id, v)
             \/ \E id \in Nodes : \E v \in {100, 200} : AssignWidth(id, v)
             \/ \E id \in Nodes : \E v \in {100, 200} : AssignHeight(id, v)
             \/ \E id \in Nodes : \E v \in {"", "image"} : AssignSrc(id, v)
             \/ \E id \in Nodes : \E v \in {Null, ImageTexture} : AssignTexture(id, v)
             \/ \E id \in Nodes : \E v \in {DefShader, CustomShader} : AssignShader(id, v)
             \/ \E id \in Nodes : \E v \in {0, 1} : AssignAlpha(id, v)
             \/ \E id \in Nodes : \E p \in Nodes \cup {Null} : AssignParent(id, p)
       \/ DrawFrame
       \/ \E id \in Nodes : \E active \in BOOLEAN : \E n \in Nodes \cup {Null} :
              CallRenderQuads(id, active, n)

SpecRtt == InitRtt /\ [][NextRtt]_vars

\* the same nodes, at most one of them constructed with rtt, when the
\* application only switches rtt and resizes
InitResize ==
    /\ \E r \in Nodes \cup {Null} :
          /\ nodes = RttWorld([id \in Nodes |-> id = r]).nodes
          /\ owners = RttWorld([id \in Nodes |-> id = r]).owners
          /\ textures = RttWorld([id \in Nodes |-> id = r]).textures
          /\ rttNodes = RttWorld([id \in Nodes |-> id = r]).rttNodes
    /\ boundsMargin = <<0, 0, 0, 0>>
    /\ renderOp = [textures |-> << >>, maxTextures |-> 1]
    /\ emitted = {}
    /\ last = [op |-> "init", node |-> Null, arg |-> {}]
    /\ ops = 0
    /\ legacy = LegacyIdle
    /\ loader = LoaderIdle
    /\ probe = NoProbe

NextResize ==
    \/ /\ ops < MaxRenderOps
       /\ \/ \E id \in Nodes : \E v \in BOOLEAN : AssignRtt(id, v)
          \/ \E id \in Nodes : \E v \in {100, 200} : AssignWidth(id, v)
          \/ \E id \in Nodes : \E v \in {100, 200} : AssignHeight(id, v)
    \/ DrawFrame

SpecResize == InitResize /\ [][NextResize]_vars

----------------------------------------------------------------------------
(* Specification of opacity: a chain below the root; the application        *)
(* assigns alpha and parents. Alpha is a number the code only multiplies,   *)
(* so small integers stand for it                                           *)

AlphaValues == {0, 1, 2}

NextAlpha ==
    \/ \E id \in Nodes : \E v \in AlphaValues : AssignAlpha(id, v)
    \/ \E id \in Nodes : \E p \in Nodes \cup {Null} : AssignParent(id, p)
    \/ UpdatePass

SpecAlpha == Init /\ [][NextAlpha]_vars

----------------------------------------------------------------------------
(* Claims about renderability *)

RenderableAsDerived(id) ==
    nodes[id].isRenderable =
        (/\ nodes[id].worldAlpha # 0
         /\ checkRenderProps(nodes[id])
         /\ nodes[id].renderState > OutOfBounds)

\* C4: after every update pass from the root, every node of the tree without a
\* render-to-texture ancestor has isRenderable = (worldAlpha # 0 and
\* checkRenderProps() and renderState > OutOfBounds) on its current properties.
C4_IsRenderableAfterPass ==
    AfterPass =>
        \A id \in Nodes :
            InTree(id) /\ ~hasRttAncestor(nodes, id) => RenderableAsDerived(id)

\* width 0, height 0, no texture, the default shader and all colours 0
Bare(id) ==
    LET n == nodes[id]
    IN  /\ n.width = 0 /\ n.height = 0
        /\ n.texture = Null
        /\ n.shader = DefShader
        /\ n.color = 0
        /\ n.colorTop = 0 /\ n.colorBottom = 0 /\ n.colorLeft = 0 /\ n.colorRight = 0
        /\ n.colorTl = 0 /\ n.colorTr = 0 /\ n.colorBl = 0 /\ n.colorBr = 0

\* C10 as stated: in every reachable state a node with width 0, height 0, no
\* texture, the default shader and all colours 0 has isRenderable = false.
C10_Original ==
    \A id \in Nodes : Bare(id) => ~nodes[id].isRenderable

\* C10: a node with width 0, height 0, no texture, the default shader and all
\* colours 0 has isRenderable = false whenever no update flag is pending on it,
\* that is once an update pass has reached it after its last change.
C10_BareNodeNotRenderable ==
    \A id \in Nodes :
        Bare(id) /\ nodes[id].updateType = None => ~nodes[id].isRenderable

\* a visible, opaque node inside the viewport was shrunk to nothing and updated
C10_Witness ==
    \E id \in Nodes :
        /\ AfterPass
        /\ InTree(id)
        /\ Bare(id)
        /\ nodes[id].updateType = None
        /\ nodes[id].worldAlpha = 1
        /\ nodes[id].renderState = InViewport
        /\ nodes[id].renderBound = createBound(50, 50, 50, 50)
        /\ ~nodes[id].isRenderable

----------------------------------------------------------------------------
(* Specifications of two pure functions: each behaviour hands one input of *)
(* the bounded sets to the function                                         *)

ColorFields ==
    <<"color", "colorTop", "colorBottom", "colorLeft", "colorRight",
      "colorTl", "colorTr", "colorBl", "colorBr">>

\* a node with the given props; cs gives the nine colour channels
PropsNode(t, wd, ht, sh, cl, cs) ==
    [CoreNode(0, 0, wd, ht, cl, 0) EXCEPT
        !.texture = t, !.shader = sh,
        !.color = cs[1], !.colorTop = cs[2], !.colorBottom = cs[3],
        !.colorLeft = cs[4], !.colorRight = cs[5],
        !.colorTl = cs[6], !.colorTr = cs[7], !.colorBl = cs[8], !.colorBr = cs[9]]

CallCheckRenderProps(n) ==
    /\ probe' = [fn |-> "checkRenderProps", n |-> n, out |-> checkRenderProps(n)]
    /\ Did("checkRenderProps", Null, {})
    /\ UNCHANGED <<nodes, owners, boundsMargin, ops, legacy, textures, rttNodes, renderOp, emitted, loader>>

InitProbe ==
    /\ InitIdle
    /\ boundsMargin = <<0, 0, 0, 0>>
    /\ nodes = [id \in Nodes |-> CoreNode(0, 0, 0, 0, FALSE, 0)]

NextProps ==
    /\ probe = NoProbe
    /\ \E t \in {Null, ImageTexture} : \E wd \in {0, 1} : \E ht \in {0, 1} :
           \E sh \in {DefShader, CustomShader} : \E cl \in BOOLEAN :
               \E cs \in [1 .. 9 -> {0, 1}] :
                   CallCheckRenderProps(PropsNode(t, wd, ht, sh, cl, cs))

SpecProps == InitProbe /\ [][NextProps]_vars

\* C9: checkRenderProps returns true exactly when the node has a texture, or has
\* nonzero width and nonzero height and (a shader that is not the default
\* shader, or clipping, or one of the nine colour channels nonzero).
C9_RenderPropsIff ==
    probe.fn = "checkRenderProps" =>
        LET n == probe.n
        IN  probe.out =
                (\/ n.texture # Null
                 \/ /\ n.width # 0
                    /\ n.height # 0
                    /\ \/ n.shader # DefShader
                       \/ n.clipping
                       \/ \E i \in 1 .. 9 : n[ColorFields[i]] # 0)

CallCheckRenderBounds(renderBound, parentClippingRect, rootSize, renderM) ==
    /\ probe' = [fn |-> "checkRenderBounds",
                 renderBound |-> renderBound,
                 parentClippingRect |-> parentClippingRect,
                 rootSize |-> rootSize,
                 renderM |-> renderM,
                 out |-> checkRenderBounds(renderBound, parentClippingRect,
                                           rootSize, rootSize, renderM, NoBound).state]
    /\ Did("checkRenderBounds", Null, {})
    /\ UNCHANGED <<nodes, owners, boundsMargin, ops, legacy, textures, rttNodes, renderOp, emitted, loader>>

Coords == 0 .. MaxCoord

NextBounds ==
    /\ probe = NoProbe
    /\ \E x1 \in Coords : \E y1 \in Coords :
           \E x2 \in x1 .. MaxCoord : \E y2 \in y1 .. MaxCoord :
               \E px \in Coords : \E py \in Coords : \E pw \in Coords : \E ph \in Coords :
                   \E rootSize \in {1, MaxCoord} : \E renderM \in [1 .. 4 -> {0, 1}] :
                       CallCheckRenderBounds(createBound(x1, y1, x2, y2),
                                             Rect(px, py, pw, ph, TRUE), rootSize, renderM)

SpecBounds == InitProbe /\ [][NextBounds]_vars

\* bound a lies entirely inside the rectangle [x1, x2] x [y1, y2]
Inside(a, x1, y1, x2, y2) ==
    a.x1 >= x1 /\ a.y1 >= y1 /\ a.x2 <= x2 /\ a.y2 <= y2

\* C5: checkRenderBounds returns InViewport exactly when the render bound lies
\* inside the strict bound built from the parent's clipping rect, with the stage
\* root's width or height where the rect's is zero; otherwise InBounds exactly
\* when it lies inside the strict bound widened by the margin
\* [top, right, bottom, left]; otherwise OutOfBounds.
C5_Classification ==
    probe.fn = "checkRenderBounds" =>
        LET p == probe.parentClippingRect
            w == IF p.width = 0 THEN probe.rootSize ELSE p.width
            h == IF p.height = 0 THEN probe.rootSize ELSE p.height
            top == probe.renderM[1]
            right == probe.renderM[2]
            bottom == probe.renderM[3]
            left == probe.renderM[4]
            inStrict == Inside(probe.renderBound, p.x, p.y, p.x + w, p.y + h)
            inMargin == Inside(probe.renderBound,
                               p.x - left, p.y - top, p.x + w + right, p.y + h + bottom)
        IN  /\ (probe.out = InViewport) = inStrict
            /\ (probe.out = InBounds) = (~inStrict /\ inMargin)
            /\ (probe.out = OutOfBounds) = (~inStrict /\ ~inMargin)

\* a bound that sticks out to the right by what the right margin alone allows
C5_Witness ==
    /\ probe.fn = "checkRenderBounds"
    /\ probe.renderM = <<0, 1, 0, 0>>
    /\ probe.parentClippingRect = Rect(0, 0, 1, 0, TRUE)
    /\ probe.rootSize = MaxCoord
    /\ probe.renderBound = createBound(0, 0, 2, MaxCoord)
    /\ probe.out = InBounds

----------------------------------------------------------------------------
(* WebGlCoreRenderOp: the textures of one render op *)

MaxTextureUnits == 3
NumTextures == 4
TextureIds == 1 .. NumTextures

\* the "full" sentinel 0xffffffff: all 32 bits set, written as the 32-bit
\* integer with that bit pattern; no slot index equals it
Full == -1

\* the capacity test lets one texture too many in
addTextureOffByOne(op, texture) ==
    LET existingIdx == indexOf(op.textures, texture) - 1
        newIdx == Len(op.textures)
    IN  IF existingIdx # -1 THEN [op |-> op, result |-> existingIdx]
        ELSE IF newIdx > op.maxTextures THEN [op |-> op, result |-> Full]
        ELSE [op |-> [op EXCEPT !.textures = Append(@, texture)], result |-> newIdx]

\* a full op makes room by dropping its oldest texture
addTextureDropOldest(op, texture) ==
    LET existingIdx == indexOf(op.textures, texture) - 1
        newIdx == Len(op.textures)
    IN  IF existingIdx # -1 THEN [op |-> op, result |-> existingIdx]
        ELSE IF newIdx >= op.maxTextures
        THEN [op |-> [op EXCEPT !.textures =
                          IF @ = << >> THEN @ ELSE Append(Tail(@), texture)],
              result |-> Full]
        ELSE [op |-> [op EXCEPT !.textures = Append(@, texture)], result |-> newIdx]

\* addTexture(texture): the render op afterwards and the slot index returned
addTexture(op, texture) ==
    LET existingIdx == indexOf(op.textures, texture) - 1
        newIdx == Len(op.textures)
    IN  IF existingIdx # -1 THEN [op |-> op, result |-> existingIdx]
        ELSE IF newIdx >= op.maxTextures THEN [op |-> op, result |-> Full]
        ELSE [op |-> [op EXCEPT !.textures = Append(@, texture)], result |-> newIdx]

\* one call; probe keeps the argument, the result and the distinct textures
\* passed so far in the order they were first passed
CallAddTexture(texture) ==
    /\ renderOp' = addTexture(renderOp, texture).op
    /\ probe' = [fn |-> "addTexture", texture |-> texture,
                 result |-> addTexture(renderOp, texture).result,
                 seen |-> IF indexOf(probe.seen, texture) # 0
                          THEN probe.seen
                          ELSE Append(probe.seen, texture)]
    /\ UNCHANGED <<nodes, owners, boundsMargin, last, ops, legacy, textures,
                   rttNodes, emitted, loader>>

NextRenderOp == \E texture \in TextureIds : CallAddTexture(texture)

\* a new render op; maxTextures is 1 or what the GL context reports, which may be 0
InitRenderOp ==
    /\ owners = {}
    /\ textures = ImageTextures
    /\ rttNodes = << >>
    /\ emitted = {}
    /\ last = [op |-> "init", node |-> Null, arg |-> {}]
    /\ ops = 0
    /\ legacy = LegacyIdle
    /\ loader = LoaderIdle
    /\ boundsMargin = <<0, 0, 0, 0>>
    /\ nodes = [id \in Nodes |-> CoreNode(0, 0, 0, 0, FALSE, 0)]
    /\ \E m \in 0 .. MaxTextureUnits : renderOp = [textures |-> << >>, maxTextures |-> m]
    /\ probe = [fn |-> "none", seen |-> << >>]

SpecRenderOp == InitRenderOp /\ [][NextRenderOp]_vars

\* ---------------------------------------------------------------------------
\* C20
\* ---------------------------------------------------------------------------

\* C20: for a render op of capacity maxTextures and any sequence of addTexture
\* calls, a call returns k - 1 when its texture was the k-th distinct texture
\* passed and k <= maxTextures, whether the call is the first with that
\* texture or a later one, and returns the sentinel 0xffffffff when
\* k > maxTextures; the textures list holds the first maxTextures distinct
\* textures in the order they were first passed.
C20_SlotIsOrderOfFirstAddition ==
    probe.fn = "addTexture" =>
        LET k == indexOf(probe.seen, probe.texture)
            held == Min(Len(probe.seen), renderOp.maxTextures)
        IN  /\ probe.result = IF k <= renderOp.maxTextures THEN k - 1 ELSE Full
            /\ renderOp.textures = SubSeq(probe.seen, 1, held)

\* the op is full, a further texture was refused and the last call passed a
\* texture again that the op holds
C20_Witness ==
    /\ probe.fn = "addTexture"
    /\ Len(renderOp.textures) = renderOp.maxTextures
    /\ renderOp.maxTextures >= 2
    /\ Len(probe.seen) > renderOp.maxTextures
    /\ probe.result = 1
    /\ indexOf(probe.seen, probe.texture) = 2

\* ---------------------------------------------------------------------------
\* C11
\* ---------------------------------------------------------------------------

\* the pass was run on the root a second time with no mutation in between
SecondPass == last.op = "update" /\ "again" \in last.arg

\* C11: when update runs on the root and then runs again with no mutation in
\* between, the second call changes no cached state of any node (nodes holds
\* every cached field and the children order), changes no texture's renderable
\* owners, emits no event and makes no setRenderableOwner call; it finds no
\* flag pending on the root, which the first call reset.
C11_SecondPassIsNoOp ==
    [][(last.op = "update" /\ last'.op = "update")
         => /\ nodes[Root].updateType = None
            /\ nodes' = nodes
            /\ owners' = owners
            /\ textures' = textures
            /\ emitted' = {}]_vars

\* a second pass over a tree in which a textured node is in the viewport and
\* owns its texture
C11_Witness ==
    /\ SecondPass
    /\ \E id \in Nodes :
          /\ InTree(id)
          /\ id # Root
          /\ nodes[id].renderState = InViewport
          /\ <<nodes[id].texture, id>> \in owners

\* ---------------------------------------------------------------------------
\* C12
\* ---------------------------------------------------------------------------

\* the z-index the node is drawn with, derived from its own and its parent's
\* properties
DerivedZIndex(id) ==
    LET p == nodes[id].parent
    IN  IF nodes[p].zIndexLocked # 0
        THEN Min(nodes[id].zIndex, nodes[p].zIndex)
        ELSE nodes[id].zIndex

\* C12: after an update pass that follows any sequence of zIndex and
\* zIndexLocked assignments and reparentings, every node of the tree that has
\* a parent has calcZIndex = min(own zIndex, parent zIndex) when the parent is
\* z-index locked and its own zIndex otherwise; so calcZIndex never exceeds
\* the zIndex of a locked parent.
C12_CalcZIndexAfterPass ==
    AfterPass =>
        \A id \in Nodes \ {Root} :
            InTree(id) =>
                /\ nodes[id].calcZIndex = DerivedZIndex(id)
                /\ nodes[nodes[id].parent].zIndexLocked # 0
                       => nodes[id].calcZIndex <= nodes[nodes[id].parent].zIndex

\* a node moved below a locked parent of lower zIndex is capped by it
C12_Witness ==
    /\ AfterPass
    /\ \E id \in Nodes \ {Root} :
          /\ InTree(id)
          /\ nodes[id].parent # Root
          /\ nodes[nodes[id].parent].zIndexLocked # 0
          /\ nodes[id].zIndex > nodes[nodes[id].parent].zIndex
          /\ nodes[id].calcZIndex = nodes[nodes[id].parent].zIndex

\* ---------------------------------------------------------------------------
\* C13
\* ---------------------------------------------------------------------------

\* the children list cs is in ascending order of calcZIndex in node table ns
Ascending(ns, cs) ==
    \A i, j \in 1 .. Len(cs) : i < j => ns[cs[i]].calcZIndex <= ns[cs[j]].calcZIndex

\* a stands before b in the list cs
Before(cs, a, b) ==
    \E i, j \in 1 .. Len(cs) : i < j /\ cs[i] = a /\ cs[j] = b

\* C13: an update pass that follows any sequence of zIndex changes, child
\* additions and child removals leaves the children list of every node of the
\* tree in ascending order of the calcZIndex the children have after that same
\* pass, and children of equal calcZIndex keep the relative order they had
\* before the pass.
C13_ChildrenSortedByCalcZIndex ==
    [][last'.op = "update" =>
         \A id \in Nodes :
             (InTree(id) /\ ~nodes[id].rtt) =>
                 /\ Ascending(nodes', nodes'[id].children)
                 /\ \A a, b \in Nodes :
                        (/\ Before(nodes[id].children, a, b)
                         /\ nodes'[a].calcZIndex = nodes'[b].calcZIndex)
                            => Before(nodes'[id].children, a, b)]_vars

\* the pass has moved a child of the root in front of one that was
\* constructed before it
C13_Witness ==
    /\ AfterPass
    /\ Len(nodes[Root].children) >= 2
    /\ nodes[Root].children[1] > nodes[Root].children[2]
    /\ nodes[nodes[Root].children[1]].calcZIndex
           < nodes[nodes[Root].children[2]].calcZIndex

\* ---------------------------------------------------------------------------
\* C14
\* ---------------------------------------------------------------------------

\* C14: after an update pass that follows any sequence of alpha assignments
\* and reparentings, every node of the tree that has no render-to-texture
\* ancestor has worldAlpha = parent.worldAlpha * alpha, and the root has
\* worldAlpha = alpha.
C14_WorldAlphaIsProduct ==
    AfterPass =>
        \A id \in Nodes :
            (InTree(id) /\ ~hasRttAncestor(nodes, id)) =>
                nodes[id].worldAlpha =
                    IF nodes[id].parent = Null
                    THEN nodes[id].alpha
                    ELSE nodes[nodes[id].parent].worldAlpha * nodes[id].alpha

\* a grandchild of the root whose world alpha is the product of two assigned
\* alphas
C14_Witness ==
    /\ AfterPass
    /\ \E id \in Nodes \ {Root} :
          /\ InTree(id)
          /\ nodes[id].parent # Root
          /\ nodes[id].alpha = 2
          /\ nodes[nodes[id].parent].alpha = 2
          /\ nodes[id].worldAlpha = 4

\* ---------------------------------------------------------------------------
\* C15
\* ---------------------------------------------------------------------------

\* C15: in every reachable state, a renderQuads call on a node that has an
\* ancestor with rtt = true reaches renderer.addQuad only when
\* renderer.renderToTextureActive is true and renderer.activeRttNode is the
\* node's nearest rtt ancestor.
C15_QuadsBelowRttAreGated ==
    (/\ probe.fn = "renderQuads"
     /\ hasRttAncestor(nodes, probe.node)
     /\ probe.addQuad)
        => /\ probe.renderToTextureActive
           /\ probe.activeRttNode = parentRenderTexture(nodes, probe.node)

\* ---------------------------------------------------------------------------
\* C16
\* ---------------------------------------------------------------------------

\* C16: when rtt is switched from true to false on a node, afterwards
\* parentHasRenderTexture is false on every descendant of it, at every depth,
\* that has no other rtt ancestor.
C16_RttOffClearsDescendants ==
    [][\A r \in Nodes :
         (nodes[r].rtt /\ ~nodes'[r].rtt) =>
             \A d \in Nodes :
                 (/\ \E i \in 1 .. Len(ancestors(nodes', d)) : ancestors(nodes', d)[i] = r
                  /\ ~hasRttAncestor(nodes', d))
                     => ~nodes'[d].parentHasRenderTexture]_vars

\* ---------------------------------------------------------------------------
\* C17
\* ---------------------------------------------------------------------------

\* the stored properties of a node that the setters of this specification
\* assign, the parent apart
StoredProps(n) ==
    <<n.width, n.height, n.alpha, n.shader, n.texture, n.src, n.rtt>>

\* the farthest ancestor of the node that has rtt = true
farthestRtt(ns, id) ==
    LET as == ancestors(ns, id)
    IN  CHOOSE i \in 1 .. Len(as) :
            ns[as[i]].rtt /\ \A j \in i + 1 .. Len(as) : ~ns[as[j]].rtt

\* C17: for every node D with an rtt ancestor, every setter call on D that
\* changes a stored property sets hasRTTupdates on each ancestor of D up to
\* and including its rtt ancestors.
C17_MutationBelowRttFlagsAncestors ==
    [][\A d \in Nodes :
         (/\ StoredProps(nodes'[d]) # StoredProps(nodes[d])
          /\ nodes'[d].parent = nodes[d].parent
          /\ ~nodes'[d].destroyed
          /\ hasRttAncestor(nodes, d))
             => \A i \in 1 .. farthestRtt(nodes, d) :
                    nodes'[ancestors(nodes, d)[i]].hasRTTupdates]_vars

\* ---------------------------------------------------------------------------
\* C18
\* ---------------------------------------------------------------------------

\* C18: in every reachable state a node with rtt = true has a texture, and
\* this texture is a render texture created for the node's current width and
\* height.
C18_RttNodeOwnsSizedRenderTexture ==
    \A id \in Nodes :
        (Live(id) /\ nodes[id].rtt) =>
            /\ nodes[id].texture # Null
            /\ textures[nodes[id].texture]
                   = [type |-> "RenderTexture",
                      width |-> nodes[id].width, height |-> nodes[id].height]

\* ---------------------------------------------------------------------------
\* C19
\* ---------------------------------------------------------------------------

\* C19: assigning a node with rtt = true a width different from its current
\* one replaces its texture by a render texture that did not exist before, of
\* the new width and the current height, sets textureOptions.preload, and
\* leaves RenderTexture and Local pending on the node.
C19_ResizeRecreatesRenderTexture ==
    [][\A id \in Nodes :
         (nodes[id].rtt /\ nodes'[id].width # nodes[id].width) =>
             /\ nodes'[id].texture > Len(textures)
             /\ nodes'[id].texture <= Len(textures')
             /\ textures'[nodes'[id].texture]
                    = [type |-> "RenderTexture",
                       width |-> nodes'[id].width, height |-> nodes[id].height]
             /\ nodes'[id].preload
             /\ {RenderTexture, Local} \subseteq nodes'[id].updateType]_vars

\* an rtt node that was drawn, then made higher, then wider: its texture is
\* the third render texture made for it and has the new width and height
C19_Witness ==
    /\ last.op = "set"
    /\ \E id \in Nodes :
          /\ nodes[id].rtt
          /\ nodes[id].width = 200
          /\ nodes[id].height = 200
          /\ nodes[id].texture = Len(textures)
          /\ textures[nodes[id].texture].width = 200
          /\ RenderTexture \in nodes[id].updateType
          /\ Len(textures) >= 4

\* ---------------------------------------------------------------------------
\* C21
\* ---------------------------------------------------------------------------

\* C21: an addTexture call that returns the capacity sentinel leaves the
\* op's texture list unchanged; no call ever moves or replaces a texture the
\* op holds; and a call with a texture the op already holds returns that
\* texture's slot index, never the sentinel, also when the op is full.
C21_FullOpIsLeftIntact ==
    [][probe'.fn = "addTexture" =>
         /\ probe'.result = Full => renderOp' = renderOp
         /\ \A i \in 1 .. Len(renderOp.textures) :
                /\ i <= Len(renderOp'.textures)
                /\ renderOp'.textures[i] = renderOp.textures[i]
         /\ indexOf(renderOp.textures, probe'.texture) # 0 =>
                /\ probe'.result = indexOf(renderOp.textures, probe'.texture) - 1
                /\ probe'.result # Full
                /\ renderOp' = renderOp]_vars

\* a full op that has refused a texture it does not hold
C21_Witness ==
    /\ probe.fn = "addTexture"
    /\ probe.result = Full
    /\ renderOp.maxTextures >= 2
    /\ Len(renderOp.textures) = renderOp.maxTextures
    /\ indexOf(renderOp.textures, probe.texture) = 0

\* ---------------------------------------------------------------------------
\* createIndexBuffer (RendererUtils.ts)
\* ---------------------------------------------------------------------------

MaxBufferSize == 640

\* a Uint16Array of length n: zero-filled, written here as a sequence whose
\* element k + 1 is the array's element k
Uint16Array(n) == [k \in 1 .. n |-> 0]

\* the loop of createIndexBuffer: i counts in steps of 6 and j in steps of 4
\* while i < maxQuads; each store keeps 16 bits
RECURSIVE fillIndices(_, _, _, _)
fillIndices(indices, i, j, maxQuads) ==
    IF i < maxQuads
    THEN fillIndices([indices EXCEPT ![i + 1] = j % 65536,
                                     ![i + 2] = (j + 1) % 65536,
                                     ![i + 3] = (j + 2) % 65536,
                                     ![i + 4] = (j + 2) % 65536,
                                     ![i + 5] = (j + 1) % 65536,
                                     ![i + 6] = (j + 3) % 65536],
                     i + 6, j + 4, maxQuads)
    ELSE indices

createIndexBuffer(size) ==
    LET maxQuads == size \div 80
    IN  fillIndices(Uint16Array(maxQuads * 6), 0, 0, maxQuads)

CallCreateIndexBuffer(size) ==
    /\ probe = NoProbe
    /\ probe' = [fn |-> "createIndexBuffer", size |-> size,
                 indices |-> createIndexBuffer(size)]
    /\ UNCHANGED <<nodes, owners, boundsMargin, last, ops, legacy, textures,
                   rttNodes, renderOp, emitted, loader>>

NextIndexBuffer ==
    \E size \in 0 .. MaxBufferSize : CallCreateIndexBuffer(size)

SpecIndexBuffer == Init /\ [][NextIndexBuffer]_vars

\* ---------------------------------------------------------------------------
\* C22
\* ---------------------------------------------------------------------------

\* C22: the index array createIndexBuffer(size) fills holds, for every quad q
\* with 0 <= q < floor(size / 80), the six indices 4q, 4q+1, 4q+2, 4q+2, 4q+1,
\* 4q+3 at its positions 6q .. 6q+5.
C22_EveryQuadHasItsTwoTriangles ==
    probe.fn = "createIndexBuffer" =>
        \A q \in 0 .. (probe.size \div 80) - 1 :
            SubSeq(probe.indices, 6 * q + 1, 6 * q + 6)
                = <<4 * q, 4 * q + 1, 4 * q + 2, 4 * q + 2, 4 * q + 1, 4 * q + 3>>

\* ---------------------------------------------------------------------------
\* Texture loading: loadTexture, its microtask, the texture's listeners
\* ---------------------------------------------------------------------------

\* the node and the objects of texture loading, threaded through a handler
Loading == [w |-> World, l |-> loader]

\* texture.on(...) for the node's three handlers, which are attached and
\* detached together; whether the emitter keeps a handler that is attached
\* twice as two listeners is the emitter's choice
on(l, texture, id) ==
    IF ~l.keepsDuplicates /\ indexOf(l.listeners, <<texture, id>>) # 0
    THEN l
    ELSE [l EXCEPT !.listeners = Append(@, <<texture, id>>)]

\* texture.off(...) for the node's three handlers
off(l, texture, id) ==
    IF indexOf(l.listeners, <<texture, id>>) = 0
    THEN l
    ELSE [l EXCEPT !.listeners = splice(@, indexOf(l.listeners, <<texture, id>>))]

\* this.emit(name, payload), as seen by a listener on the node; change tells
\* which of the texture's state changes the event reports
emit(l, id, name, texture) ==
    [l EXCEPT !.observed[id] =
        Append(@, [name |-> name, texture |-> texture,
                   error |-> IF name = "failed" THEN l.error[texture] ELSE "none",
                   change |-> l.changes[texture]])]

\* the nodes have no autosize and no resizeMode
onTextureLoaded(s, id, texture) ==
    [w |-> IF s.w.nodes[id].parentHasRenderTexture THEN setRTTUpdates(s.w, id) ELSE s.w,
     l |-> emit(s.l, id, "loaded", texture)]

onTextureFailed(s, id, texture) == [s EXCEPT !.l = emit(@, id, "failed", texture)]

onTextureFreed(s, id, texture) == [s EXCEPT !.l = emit(@, id, "freed", texture)]

onTextureState(s, id, texture, state) ==
    CASE state = "loaded" -> onTextureLoaded(s, id, texture)
      [] state = "failed" -> onTextureFailed(s, id, texture)
      [] state = "freed" -> onTextureFreed(s, id, texture)
      [] OTHER -> s

\* the callback loadTexture queued for a node and the texture the node had
\* when loadTexture was called; ctxTexture.load() starts loading a freed texture
microtask(s) ==
    LET id == Head(s.l.microtasks)[1]
        texture == Head(s.l.microtasks)[2]
        s1 == [s EXCEPT !.l.microtasks = Tail(@)]
        s2 == IF s1.w.nodes[id].preload /\ s1.l.state[texture] = "freed"
              THEN [s1 EXCEPT !.l.state[texture] = "loading"]
              ELSE s1
        s3 == onTextureState(s2, id, texture, s2.l.state[texture])
    IN  [s3 EXCEPT !.l = on(@, texture, id)]

\* the texture setter with the loader: unloadTexture detaches the node's
\* handlers from the old texture, loadTexture queues the callback; a listener
\* is attached to the node right after an assignment that starts a load
setTextureAndLoad(s, id, value) ==
    IF s.w.nodes[id].texture = value
    THEN s
    ELSE LET oldTexture == s.w.nodes[id].texture
             l1 == IF oldTexture # Null THEN off(s.l, oldTexture, id) ELSE s.l
             l2 == IF value # Null
                   THEN [l1 EXCEPT !.microtasks = Append(@, <<id, value>>),
                                   !.observed[id] = << >>]
                   ELSE l1
         IN  [w |-> setTexture(s.w, id, value), l |-> l2]

\* the texture's listeners are called in the order they were attached
RECURSIVE notify(_, _, _, _)
notify(s, listeners, texture, state) ==
    IF listeners = << >>
    THEN s
    ELSE notify(IF Head(listeners)[1] = texture
                THEN onTextureState(s, Head(listeners)[2], texture, state)
                ELSE s,
                Tail(listeners), texture, state)

\* the texture changes its state and emits the event named after the new one
setState(s, texture, state, error) ==
    notify([s EXCEPT !.l.state[texture] = state,
                     !.l.error[texture] = error,
                     !.l.changes[texture] = @ + 1],
           s.l.listeners, texture, state)

LoadStep(s) ==
    /\ ops < MaxOps
    /\ Commit([s.w EXCEPT !.log = {}])
    /\ loader' = s.l
    /\ Did("set", Null, {})
    /\ ops' = ops + 1
    /\ UNCHANGED <<boundsMargin, legacy, probe, renderOp>>

AssignTextureAndLoad(id, value) ==
    /\ Live(id)
    /\ LoadStep(setTextureAndLoad(Loading, id, value))

TextureChangesState(texture, state, error) ==
    /\ loader.state[texture] # state
    /\ (state = "failed") = (error # "none")
    /\ LoadStep(setState(Loading, texture, state, error))

\* destroy() with the loader: unloadTexture detaches the node's handlers from
\* the texture the node has; callbacks already queued stay queued
destroyAndUnload(s, id) ==
    [w |-> destroy(s.w, id),
     l |-> IF s.w.nodes[id].texture # Null
           THEN off(s.l, s.w.nodes[id].texture, id)
           ELSE s.l]

CallDestroyAndUnload(id) ==
    /\ id # Root
    /\ Live(id)
    /\ LoadStep(destroyAndUnload(Loading, id))

RunMicrotask ==
    /\ loader.microtasks # << >>
    /\ Commit([microtask(Loading).w EXCEPT !.log = {}])
    /\ loader' = microtask(Loading).l
    /\ Did("microtask", Head(loader.microtasks)[1], {})
    /\ UNCHANGED <<ops, boundsMargin, legacy, probe, renderOp>>

InitLoad ==
    /\ owners = {}
    /\ textures = ImageTextures
    /\ rttNodes = << >>
    /\ renderOp = [textures |-> << >>, maxTextures |-> 1]
    /\ emitted = {}
    /\ last = [op |-> "init", node |-> Null, arg |-> {}]
    /\ ops = 0
    /\ legacy = LegacyIdle
    /\ probe = NoProbe
    /\ boundsMargin = <<0, 0, 0, 0>>
    /\ nodes = constructChain(
                   [nodes |-> [id \in Nodes |-> CoreNode(0, 0, 0, 10, FALSE, 0)],
                    owners |-> {}, margin |-> <<0, 0, 0, 0>>,
                    textures |-> ImageTextures, rttNodes |-> << >>, log |-> {}], 2).nodes
    /\ \E states \in [LoadTextures -> TextureStates] : \E keepsDuplicates \in BOOLEAN :
          loader = [LoaderIdle EXCEPT
                        !.state = states,
                        !.error = [t \in LoadTextures |->
                                      IF states[t] = "failed" THEN "E1" ELSE "none"],
                        !.keepsDuplicates = keepsDuplicates]

NextLoad ==
    \/ \E id \in Nodes : \E value \in LoadTextures \cup {Null} : AssignTextureAndLoad(id, value)
    \/ \E texture \in LoadTextures : \E state \in TextureStates :
          \E error \in {"none", "E2"} : TextureChangesState(texture, state, error)
    \/ RunMicrotask
    \/ \E id \in Nodes : CallDestroyAndUnload(id)
    \/ UpdatePass

SpecLoad == InitLoad /\ [][NextLoad]_vars

\* ---------------------------------------------------------------------------
\* C23
\* ---------------------------------------------------------------------------

\* C23: a listener attached to a node right after a texture was assigned to
\* it observes no state change of a texture more than once; and once the
\* callbacks queued for the node have run, it has observed the state the
\* node's texture is in (loaded, failed or freed), also when the texture was
\* in that state when it was assigned. This holds for every interleaving of
\* the queued callbacks with assigning, replacing, clearing and assigning again.
C23_ListenerObservesEachTransitionOnce ==
    \A id \in Nodes :
        LET observed == loader.observed[id]
            texture == nodes[id].texture
        IN  /\ \A i, j \in 1 .. Len(observed) : observed[i] = observed[j] => i = j
            /\ ( /\ texture # Null
                 /\ \A k \in 1 .. Len(loader.microtasks) : loader.microtasks[k][1] # id
                 /\ loader.state[texture] # "loading" )
               => \E i \in 1 .. Len(observed) :
                     /\ observed[i].name = loader.state[texture]
                     /\ observed[i].texture = texture
                     /\ observed[i].change = loader.changes[texture]

\* ---------------------------------------------------------------------------
\* C25
\* ---------------------------------------------------------------------------

\* C25: a node whose texture failed to load has emitted a failed event that
\* carries the texture's error, and after the next update pass the node is
\* renderable only if its width and height are nonzero (and its colors,
\* clipping or shader make it eligible): the failed texture is no reason.
C25_FailedTextureDoesNotRender ==
    last.op = "update" =>
        \A id \in Nodes :
            LET texture == nodes[id].texture
                observed == loader.observed[id]
            IN  ( /\ texture # Null
                  /\ loader.state[texture] = "failed"
                  /\ \A k \in 1 .. Len(loader.microtasks) : loader.microtasks[k][1] # id )
                => /\ \E i \in 1 .. Len(observed) :
                         /\ observed[i].name = "failed"
                         /\ observed[i].texture = texture
                         /\ observed[i].error = loader.error[texture]
                   /\ nodes[id].isRenderable
                         => nodes[id].width # 0 /\ nodes[id].height # 0

\* ---------------------------------------------------------------------------
\* C24
\* ---------------------------------------------------------------------------

\* C24: a node on which destroy() was called has no texture, has the stage's
\* default shader, is not renderable, has an invalid clipping rect, has none
\* of its cached geometry fields (globalTransform, localTransform,
\* scaleRotateTransform, renderCoords, renderBound, strictBound, preloadBound),
\* has no parent, is in no node's children list and is not registered with
\* the renderer as a render-to-texture node.
C24_DestroyedNodeIsReleased ==
    \A id \in Nodes :
        nodes[id].destroyed =>
            /\ nodes[id].texture = Null
            /\ nodes[id].shader = DefShader
            /\ ~nodes[id].clippingRect.valid
            /\ ~nodes[id].isRenderable
            /\ nodes[id].globalTransform = NoMatrix
            /\ nodes[id].localTransform = NoMatrix
            /\ nodes[id].scaleRotateTransform = NoMatrix
            /\ nodes[id].renderCoords = NoCoords
            /\ nodes[id].renderBound = NoBound
            /\ nodes[id].strictBound = NoBound
            /\ nodes[id].preloadBound = NoBound
            /\ nodes[id].parent = Null
            /\ \A p \in Nodes : indexOf(nodes[p].children, id) = 0
            /\ indexOf(rttNodes, id) = 0

\* ---------------------------------------------------------------------------
\* C26
\* ---------------------------------------------------------------------------

\* C26: a parent assignment on a node that is not in its old parent's
\* children list leaves the tree as it was: the parent reference of every
\* node and every children list are unchanged.
C26_FailedAssignmentKeepsTree ==
    [][\A id \in Nodes :
         ( /\ last'.op = "parent"
           /\ last'.node = id
           /\ legacy[id].parent # Null
           /\ indexOf(legacy[legacy[id].parent].children, id) = 0 )
         => legacy' = legacy]_vars

\* ---------------------------------------------------------------------------
\* update called on a node that has no parent
\* ---------------------------------------------------------------------------

\* node.update(delta, node.clippingRect) on a node other than the root that
\* has no parent, as the stage calls it on the root
CallUpdate(id) ==
    /\ id # Root
    /\ Live(id)
    /\ nodes[id].parent = Null
    /\ Commit([update(World, id, nodes[id].clippingRect, TRUE) EXCEPT !.log = {}])
    /\ Did("update", id, {})
    /\ UNCHANGED <<ops, boundsMargin, legacy, probe, renderOp, loader>>

NextDetach ==
    \/ \E id \in Nodes \ {Root} : \E v \in XValues : AssignX(id, v)
    \/ \E id \in Nodes : \E p \in Nodes \cup {Null} : AssignParent(id, p)
    \/ UpdatePass
    \/ \E id \in Nodes : CallUpdate(id)

SpecDetach == Init /\ [][NextDetach]_vars

\* ---------------------------------------------------------------------------
\* C27
\* ---------------------------------------------------------------------------

\* C27: after update was called on a node that has no parent, the root or a
\* node that was detached with parent = null after it had been updated under
\* a parent, the node's globalTransform equals its localTransform.
C27_ParentlessGlobalIsLocal ==
    last.op = "update" =>
        nodes[last.node].globalTransform = nodes[last.node].localTransform

\* ---------------------------------------------------------------------------
\* The scene with its frames recorded: the events each pass emits
\* ---------------------------------------------------------------------------

NextEvents ==
    \/ /\ ops < MaxSceneOps
       /\ \/ \E id \in Nodes \ {Root} : \E v \in XValues : AssignX(id, v)
          \/ \E id \in Nodes : \E v \in BOOLEAN : AssignClipping(id, v)
          \/ \E id \in Nodes : \E p \in Nodes \cup {Null} : AssignParent(id, p)
    \/ RecordedPass

SpecEvents == InitScene /\ [][NextEvents]_vars

\* ---------------------------------------------------------------------------
\* C28
\* ---------------------------------------------------------------------------

\* C28: an update pass emits a render-state event for a node exactly when
\* the node's render state changes in the pass; the event is named after the
\* new state (outOfBounds, inBounds, inViewport) and carries the state the
\* node had just before as previous and the new state as current, which
\* differ; a pass that leaves the state as it was emits nothing for the
\* node; and no step takes a node that was classified back to Init.
C28_EventOnlyOnTransition ==
    [][\A id \in Nodes :
         LET events == {e \in emitted' : e[1] = "emit" /\ e[2] = id}
             previous == nodes[id].renderState
             current == nodes'[id].renderState
         IN  /\ previous # RsInit => current # RsInit
             /\ IF current # previous
                THEN /\ last'.op = "update"
                     /\ events = {<<"emit", id,
                                    CASE current = OutOfBounds -> "outOfBounds"
                                      [] current = InBounds -> "inBounds"
                                      [] current = InViewport -> "inViewport",
                                    previous, current>>}
                ELSE events = {}]_vars

\* a pass has taken a node from the viewport into the preload margin and has
\* left the state of another node, which was classified before, as it was
C28_Witness ==
    /\ last.op = "update"
    /\ \E id \in Nodes :
          /\ <<"emit", id, "inBounds", InViewport, InBounds>> \in emitted
          /\ \E other \in Nodes :
                /\ other # id
                /\ nodes[other].renderState # RsInit
                /\ \A e \in emitted : e[1] = "emit" => e[2] # other

\* ---------------------------------------------------------------------------
\* C29
\* ---------------------------------------------------------------------------

\* C29: when update has run on a node that had ParentRenderTexture pending,
\* the node's parentHasRenderTexture is true exactly when one of its
\* ancestors has rtt = true, also when the node had an rtt ancestor before
\* and was moved below a chain of ancestors that has none.
C29_FlagMatchesRttAncestry ==
    [][\A id \in Nodes :
         ( /\ ParentRenderTexture \in nodes[id].updateType
           /\ nodes'[id].updateType = None )
         => nodes'[id].parentHasRenderTexture = hasRttAncestor(nodes', id)]_vars

\* ---------------------------------------------------------------------------
\* calculateRenderCoords and updateBoundingRect on a given global transform
\* ---------------------------------------------------------------------------

TransformValues == {-1, 0, 1, 2}

\* the two calls the Global step makes once globalTransform is set
CallUpdateBoundingRect(transform, width, height) ==
    /\ probe = NoProbe
    /\ LET w0 == [World EXCEPT !.nodes[Root].globalTransform = transform,
                               !.nodes[Root].width = width,
                               !.nodes[Root].height = height]
           n == updateBoundingRect(calculateRenderCoords(w0, Root), Root).nodes[Root]
       IN  probe' = [fn |-> "updateBoundingRect", transform |-> transform,
                     renderCoords |-> n.renderCoords, renderBound |-> n.renderBound]
    /\ Did("updateBoundingRect", Root, {})
    /\ UNCHANGED <<nodes, owners, boundsMargin, ops, legacy, textures, rttNodes, renderOp, emitted, loader>>

NextBoundingRect ==
    \E ta \in TransformValues : \E tb \in TransformValues :
        \E tc \in TransformValues : \E td \in TransformValues :
            \E tx \in {0, 5} : \E width \in {1, 3} : \E height \in {1, 3} :
                CallUpdateBoundingRect(Matrix(ta, tb, tc, td, tx, 0), width, height)

SpecBoundingRect == InitProbe /\ [][NextBoundingRect]_vars

\* ---------------------------------------------------------------------------
\* C30
\* ---------------------------------------------------------------------------

\* C30: the renderBound the Global step computes is the axis-aligned bounding
\* box of the node's four render coordinates: x1 and x2 are the least and
\* the greatest corner x, y1 and y2 the least and the greatest corner y, for
\* every global transform, negative scale factors and transforms with
\* exactly one of tb and tc zero included.
C30_RenderBoundIsBoundingBox ==
    probe.fn = "updateBoundingRect" =>
        LET rc == probe.renderCoords
        IN  probe.renderBound =
                createBound(Min4(rc.x1, rc.x2, rc.x3, rc.x4),
                            Min4(rc.y1, rc.y2, rc.y3, rc.y4),
                            Max4(rc.x1, rc.x2, rc.x3, rc.x4),
                            Max4(rc.y1, rc.y2, rc.y3, rc.y4))

\* ---------------------------------------------------------------------------
\* C31
\* ---------------------------------------------------------------------------

\* C31: once every queued callback has run, a node's handlers are attached
\* to no texture but the one the node has, and to none at all when the
\* node was destroyed; this holds for every interleaving of assigning,
\* replacing and clearing the texture, destroy and the queued callbacks.
C31_HandlersOnlyOnAttachedTexture ==
    loader.microtasks = << >> =>
        \A i \in 1 .. Len(loader.listeners) :
            LET texture == loader.listeners[i][1]
                id == loader.listeners[i][2]
            IN  /\ ~nodes[id].destroyed
                /\ nodes[id].texture = texture

\* ---------------------------------------------------------------------------
\* node.children.forEach((item) => item.destroy())
\* ---------------------------------------------------------------------------

\* Array.prototype.forEach over the live children array: visit the element at
\* index k while k is below the array's current length, then go on to k + 1;
\* destroy() removes the visited child from the array being iterated
RECURSIVE forEachChildDestroy(_, _, _)
forEachChildDestroy(w, id, k) ==
    IF k > Len(w.nodes[id].children)
    THEN w
    ELSE forEachChildDestroy(destroy(w, w.nodes[id].children[k]), id, k + 1)

CallForEachChildDestroy(id) ==
    /\ Live(id)
    /\ Mutation("forEachChildDestroy", id, {}, forEachChildDestroy(World, id, 1))

NextForEach ==
    \/ \E id \in Nodes : \E p \in Nodes \cup {Null} : AssignParent(id, p)
    \/ \E id \in Nodes : CallForEachChildDestroy(id)
    \/ UpdatePass

SpecForEach == InitZIndex /\ [][NextForEach]_vars

\* ---------------------------------------------------------------------------
\* C32
\* ---------------------------------------------------------------------------

\* C32: iterating a node's children with forEach and destroying each visited
\* child destroys every child the node had: afterwards the node's children
\* list is empty and every former child is destroyed and has no parent.
C32_ForEachDestroysEveryChild ==
    [][\A id \in Nodes :
         (last'.op = "forEachChildDestroy" /\ last'.node = id) =>
             /\ nodes'[id].children = << >>
             /\ \A k \in 1 .. Len(nodes[id].children) :
                    /\ nodes'[nodes[id].children[k]].destroyed
                    /\ nodes'[nodes[id].children[k]].parent = Null]_vars

\* ---------------------------------------------------------------------------
\* update called on a node with rtt = true
\* ---------------------------------------------------------------------------

\* node.update(delta, parentClippingRect) on one rtt node, with the clipping
\* rect of its parent, or its own when it has no parent (as for the root)
CallUpdateRtt(id) ==
    /\ Live(id)
    /\ nodes[id].rtt
    /\ Commit([update(World, id,
                      IF nodes[id].parent # Null
                      THEN nodes[nodes[id].parent].clippingRect
                      ELSE nodes[id].clippingRect,
                      nodes[id].parent = Null) EXCEPT !.log = {}])
    /\ Did("updateRtt", id, {})
    /\ UNCHANGED <<ops, boundsMargin, legacy, probe, renderOp, loader>>

NextRttUpdate ==
    \/ /\ ops < MaxRenderOps
       /\ \/ \E id \in Nodes : \E v \in BOOLEAN : AssignRtt(id, v)
          \/ \E id \in Nodes : \E v \in {100, 200} : AssignWidth(id, v)
    \/ DrawFrame
    \/ \E id \in Nodes : CallUpdateRtt(id)

SpecRttUpdate == InitResize /\ [][NextRttUpdate]_vars

\* ---------------------------------------------------------------------------
\* C33
\* ---------------------------------------------------------------------------

\* node d is below node id
Below(id, d) == d # id /\ isAncestorOrSelf(id, d)

\* C33 as stated: an update call on an rtt node changes nothing on a node
\* below it but the pending flags of its direct children, and updates none.
C33_RttUpdateTouchesOnlyChildFlags ==
    [][\A id \in Nodes : \A d \in Nodes :
         (last'.op = "updateRtt" /\ last'.node = id /\ Below(id, d)) =>
             /\ [nodes'[d] EXCEPT !.updateType = None] = [nodes[d] EXCEPT !.updateType = None]
             /\ nodes[d].updateType \subseteq nodes'[d].updateType
             /\ nodes[d].parent # id => nodes'[d].updateType = nodes[d].updateType]_vars

\* C33, amended: an update call on an rtt node updates no node below it and
\* changes none of their cached fields (transforms, render coordinates and
\* bounds, clipping rect, worldAlpha, premultiplied colors, calcZIndex,
\* renderState, isRenderable) and none of their props; on its direct
\* children it may add pending flags and set hasRTTupdates, and on every
\* other node below it it changes nothing at all.
C33_RttUpdateTouchesOnlyChildMarks ==
    [][\A id \in Nodes : \A d \in Nodes :
         (last'.op = "updateRtt" /\ last'.node = id /\ Below(id, d)) =>
             /\ [nodes'[d] EXCEPT !.updateType = None, !.hasRTTupdates = FALSE]
                    = [nodes[d] EXCEPT !.updateType = None, !.hasRTTupdates = FALSE]
             /\ nodes[d].updateType \subseteq nodes'[d].updateType
             /\ nodes[d].hasRTTupdates => nodes'[d].hasRTTupdates
             /\ nodes[d].parent # id => nodes'[d] = nodes[d]]_vars

\* the update of an rtt node has just raised All on its child, which was
\* classified before, and has left the grandchild as it was
C33_Witness ==
    /\ last.op = "updateRtt"
    /\ \E d \in Nodes : \E g \in Nodes :
          /\ nodes[d].parent = last.node
          /\ nodes[g].parent = d
          /\ nodes[d].updateType = All
          /\ nodes[d].hasRTTupdates
          /\ nodes[d].renderState # RsInit
          /\ nodes[g].updateType = None
          /\ nodes[g].renderState # RsInit

\* ---------------------------------------------------------------------------
\* C34
\* ---------------------------------------------------------------------------

\* C34: between operations, every node that has a flag pending has Children
\* pending on each of its ancestors.
C34_PendingNodeHasFlaggedAncestors ==
    \A id \in Nodes :
        nodes[id].updateType # None =>
            \A i \in 1 .. Len(ancestors(nodes, id)) :
                Children \in nodes[ancestors(nodes, id)[i]].updateType

\* ---------------------------------------------------------------------------
\* C36
\* ---------------------------------------------------------------------------

\* the stage root rectangle (0, 0, root width, root height) as a bound
rootBound(ns) == createBound(0, 0, ns[Root].width, ns[Root].height)

\* the frame classifies the node again: it is in the tree and its transform
\* or its render state is pending
Reclassified(id) ==
    /\ id # Root
    /\ Live(id)
    /\ InTree(id)
    /\ nodes[id].updateType \cap {Local, Global, RenderState} # {}

\* C36: a node classified in a frame while its parent's clipping rect is not
\* valid is classified against the stage root rectangle, not against the
\* coordinates left in the rect.
C36_InvalidParentRectMeansRootBound ==
    [][\A id \in Nodes :
          (/\ last'.op = "update"
           /\ Reclassified(id)
           /\ ~nodes'[nodes[id].parent].clippingRect.valid)
          => nodes'[id].strictBound = rootBound(nodes')]_vars

\* ---------------------------------------------------------------------------
\* C35
\* ---------------------------------------------------------------------------

\* the textures the texture manager has handed out
ManagedTextures == 1 .. Len(textures)

\* C35: once the pending update passes have run, a node is registered as a
\* renderable owner of a texture exactly when that texture is attached to
\* the node and the node is renderable.
C35_OwnerIffAttachedAndRenderable ==
    last.op = "update" =>
        \A id \in Nodes : \A t \in ManagedTextures :
            nodes[id].updateType = None =>
                (<<t, id>> \in owners
                     <=> (nodes[id].texture = t /\ nodes[id].isRenderable))

\* ---------------------------------------------------------------------------
\* C37
\* ---------------------------------------------------------------------------

\* the classification of a node's current render bound against the current
\* clipping rect of its parent (the root is classified against its own rect)
currentClassification(id) ==
    checkRenderBounds(nodes[id].renderBound,
                      IF nodes[id].parent = Null
                      THEN nodes[id].clippingRect
                      ELSE nodes[nodes[id].parent].clippingRect,
                      nodes[Root].width, nodes[Root].height,
                      boundsMargin, nodes[id].preloadBound).state

\* C37: after an update pass from the root, every node of the tree with no
\* rtt ancestor has the render state its current render bound has against
\* its parent's current clipping rect.
C37_RenderStateIsCurrent ==
    last.op = "update" =>
        \A id \in Nodes :
            (Live(id) /\ InTree(id) /\ ~hasRttAncestor(nodes, id))
                => nodes[id].renderState = currentClassification(id)

\* ---------------------------------------------------------------------------
\* C38
\* ---------------------------------------------------------------------------
(* Specification of parent assignment as the setter accepts it: any live    *)
(* node or null may be assigned, the node itself and its descendants         *)
(* included. The walks over ancestors and the update recursion do not end    *)
(* on a cycle, so the model takes no step from a state that has one         *)

\* the node reached from id by following parent k times
RECURSIVE parentAfter(_, _, _)
parentAfter(ns, id, k) ==
    IF k = 0 \/ id = Null THEN id ELSE parentAfter(ns, ns[id].parent, k - 1)

\* the walk `while (parent) parent = parent.parent` ends from every node
acyclic(ns) == \A id \in Nodes : parentAfter(ns, id, NumNodes) = Null

AssignAnyParent(id, p) ==
    /\ id # Root
    /\ Live(id)
    /\ p # Null => Live(p)
    /\ Mutation("parent", id, {p}, setParent(World, id, p))

NextParent ==
    /\ acyclic(nodes)
    /\ \/ \E id \in Nodes : \E p \in Nodes \cup {Null} : AssignAnyParent(id, p)
       \/ \E id \in Nodes : \E type \in {{Local}, All} : CallSetUpdateType(id, type)
       \/ UpdatePass

SpecParent == Init /\ [][NextParent]_vars

\* C38: after any sequence of parent assignments no node is its own
\* ancestor.
C38_ParentRelationIsAcyclic == acyclic(nodes)

\* ---------------------------------------------------------------------------
\* C39
\* ---------------------------------------------------------------------------

\* C39: whatever number of texture units the device reports, the first
\* addTexture call on a freshly constructed render op returns slot 0.
C39_FreshOpAcceptsFirstTexture ==
    [][(probe.fn = "none" /\ probe'.fn = "addTexture") => probe'.result = 0]_vars

\* ---------------------------------------------------------------------------
\* C40
\* ---------------------------------------------------------------------------

\* renderToTexture(node) was called and removeRTTNode(node) was not called since
registeredRtt(id) == indexOf(rttNodes, id) # 0

\* C40: a node is registered with the renderer as an RTT node exactly when
\* it is not destroyed and its rtt property is true.
C40_RegisteredIffRtt ==
    \A id \in Nodes : registeredRtt(id) <=> (Live(id) /\ nodes[id].rtt)

====
